---- MODULE Spec2Model ----
(***************************************************************************)
(* X-downloader: the incremental synchronisation engine (Monitor), the     *)
(* Status Store (DatabaseManager over the users / tweets tables) and the   *)
(* Content Sink (Downloader over the local and S3 storage adapters).       *)
(*                                                                         *)
(* Tweet ids are decimal strings (the tweets.tweet_id and                  *)
(* users.last_tweet_id columns are TEXT); they are modelled as sequences   *)
(* of digits, so that the JavaScript comparison of two ids is the          *)
(* comparison of strings and the API's ordering is the numeric one.        *)
(***************************************************************************)
EXTENDS Integers, Sequences, FiniteSets, TLC

(***************************************************************************)
(* Bounds of the model.                                                    *)
(***************************************************************************)
\* numeric value of the newest tweet id the remote API may hold
MaxId == 11
\* largest number of items the remote API puts on one page
PageSize == 2
\* the configured number of tweets downloaded for a new user
maxInitialTweets == 2
\* number of Status Store operations that may fail in one behaviour
MaxFaults == 1
\* number of abrupt stops of the process in one behaviour
MaxCrashes == 1
\* number of tweets of an account whose payload lacks its text
MaxMalformed == 1
\* number of downloads that may fail (text write or HTTP GET) in one
\* behaviour of a specification that also stops the process or fails the store
MaxFailures == 1
\* the budget of a specification that does not limit the failing downloads
Unlimited == 0 - 1
\* number of passes that may be started while another pass is in progress or
\* has been, in one behaviour of the specification with two workers
MaxOverlaps == 1
\* number of tweets the account posts in one behaviour of that specification
MaxPosts == 2
MaxVariants == 3
\* number of listing responses with an empty page and a next-page token in one
\* behaviour of the specification of the listing
MaxStalls == 2

\* the oldest tweet id of the remote timeline, the last id of one digit:
\* the ids run over 9, 10, 11, ... and have different numbers of digits
FirstId == 10 - 1

\* the number of ids from FirstId to MaxId
AllPosts == MaxId - FirstId + 1

Usernames == {"alice", "bob"}
WorkerIds == {"w1", "w2"}

(***************************************************************************)
(* Decimal strings.                                                        *)
(***************************************************************************)
RECURSIVE IdString(_)
IdString(n) == IF n < 10 THEN <<n>> ELSE IdString(n \div 10) \o <<n % 10>>

RECURSIVE ToNumber(_)
ToNumber(s) == IF s = <<>> THEN 0
               ELSE 10 * ToNumber(SubSeq(s, 1, Len(s) - 1)) + s[Len(s)]

TweetIds == {IdString(n) : n \in FirstId..MaxId}

\* null, as returned for a user without a row (also: the falsy value)
NULL == <<>>

\* a < b on two JavaScript strings: comparison by code units, left to right
RECURSIVE StrLess(_, _)
StrLess(a, b) ==
    IF b = <<>> THEN FALSE
    ELSE IF a = <<>> THEN TRUE
    ELSE IF Head(a) # Head(b) THEN Head(a) < Head(b)
    ELSE StrLess(Tail(a), Tail(b))

\* tweet.tweet_id <= lastTweetId
StrLessEq(a, b) == a = b \/ StrLess(a, b)

\* the API's ordering of two ids: a is newer than b
Newer(a, b) == ToNumber(a) > ToNumber(b)

(***************************************************************************)
(* The remote API: item payloads.                                          *)
(***************************************************************************)
\* the shapes of payload the remote API serves: a photo, a video with mp4
\* variants, a video without an mp4 variant, a payload that lacks its text
Kinds == {"photo", "video", "nomp4", "notext"}

\* the media a well-formed tweet carries, by the numeric value of its id
MediaKind(n) == CASE n % 3 = 0 -> "photo" [] n % 3 = 1 -> "video" [] OTHER -> "nomp4"

\* tweet.media.photo of a payload
PhotosOf(kind) ==
    IF kind = "photo" THEN <<[id |-> 1, media_url_https |-> "jpg"]>> ELSE <<>>

\* tweet.media.video of a payload: the variants of each video
VideosOf(kind) ==
    CASE kind = "video" ->
           <<[id |-> 1, variants |->
                <<[content_type |-> "application/x-mpegURL", bitrate |-> 0, url |-> "m3u8"],
                  [content_type |-> "video/mp4", bitrate |-> 500, url |-> "lo"],
                  [content_type |-> "video/mp4", bitrate |-> 1500, url |-> "hi"],
                  [content_type |-> "video/mp4", bitrate |-> 1000, url |-> "mid"]>>]>>
      [] kind = "nomp4" ->
           <<[id |-> 1, variants |->
                <<[content_type |-> "application/x-mpegURL", bitrate |-> 0, url |-> "m3u8"]>>]>>
      [] OTHER -> <<>>

\* a payload: tweet.text is missing from a "notext" payload
Payload(id, kind) ==
    [tweet_id |-> id, hasText |-> kind # "notext",
     photo |-> PhotosOf(kind), video |-> VideosOf(kind)]

\* the configuration of the downloader (all content classes enabled)
downloadOptions ==
    [downloadText |-> TRUE, downloadPhotos |-> TRUE, downloadVideos |-> TRUE,
     videoQuality |-> "highest"]

(***************************************************************************)
(* State.                                                                  *)
(***************************************************************************)
VARIABLES
    remote,       \* per account: the kinds of the posted tweets, oldest first
    users,        \* the users table: rows [username, last_tweet_id]
    tweets,       \* the tweets table: rows [username, tweet_id, status, error_message]
    sink,         \* the Content Sink: stored content of every path
    storageMode,  \* "local" or "s3"
    pass,         \* per worker: the checkUser / retryFailedTweets invocation in progress
    workers,      \* the workers that run invocations
    targetUsers,  \* the monitored accounts (Monitor.targetUsers)
    usersFile,    \* the list of accounts committed in the registry file
    tick,         \* the checkAllUsers call in progress: its loop over targetUsers
    call,         \* the latest direct call of an operation: its arguments and result
    env,          \* what the environment may still do: store faults, crashes, malformed
                  \* payloads, failing downloads, listing pages that are empty but
                  \* carry a next-page token
    netLog,       \* the paths requested over the network by the latest downloadTweet
    writeLog,     \* the paths written to the sink by the latest downloadTweet
    lastRun       \* per account: what the latest finished invocation was

vars == <<remote, users, tweets, sink, storageMode, pass, workers, targetUsers,
          usersFile, tick, call,
          env, netLog, writeLog, lastRun>>

(***************************************************************************)
(* The remote timeline.                                                    *)
(***************************************************************************)
\* the ids of the account's tweets, newest first
Timeline(u) ==
    [k \in 1..Len(remote[u]) |-> IdString(FirstId + Len(remote[u]) - k)]

KindOf(u, id) == remote[u][ToNumber(id) - FirstId + 1]

\* a page of the listing: the items after the first `offset` ones, at most n of them
Page(u, offset, n) ==
    SubSeq(Timeline(u), offset + 1,
           IF offset + n < Len(Timeline(u)) THEN offset + n ELSE Len(Timeline(u)))

(***************************************************************************)
(* Status Store (DatabaseManager).                                         *)
(***************************************************************************)
\* SELECT last_tweet_id FROM users WHERE username = ?
getLastTweetId(u) ==
    IF \E r \in users : r.username = u
    THEN (CHOOSE r \in users : r.username = u).last_tweet_id
    ELSE NULL

\* a save that leaves the table as it is
saveLastTweetId_NoWrite(u, tweetId) == users

\* INSERT OR REPLACE INTO users: username is the primary key
saveLastTweetId(u, tweetId) ==
    {r \in users : r.username # u} \cup {[username |-> u, last_tweet_id |-> tweetId]}

\* SELECT status FROM tweets WHERE username = ? AND tweet_id = ?
getTweetStatus(u, tweetId) ==
    IF \E r \in tweets : r.username = u /\ r.tweet_id = tweetId
    THEN (CHOOSE r \in tweets : r.username = u /\ r.tweet_id = tweetId).status
    ELSE "none"

\* the error_message of the row of an item ("" stands for null)
getErrorMessage(u, tweetId) ==
    IF \E r \in tweets : r.username = u /\ r.tweet_id = tweetId
    THEN (CHOOSE r \in tweets : r.username = u /\ r.tweet_id = tweetId).error_message
    ELSE ""

\* isTweetDownloaded comparing the status with a word no row carries
isTweetDownloaded_WrongLiteral(u, tweetId) == getTweetStatus(u, tweetId) = "complete"

\* SELECT status ...; status === 'completed' (false when there is no row)
isTweetDownloaded(u, tweetId) == getTweetStatus(u, tweetId) = "completed"

\* a plain INSERT, into a table without the UNIQUE constraint
updateTweetStatus_PlainInsert(u, tweetId, status, errorMessage) ==
    tweets \cup {[username |-> u, tweet_id |-> tweetId, status |-> status,
                  error_message |-> errorMessage]}

\* INSERT OR REPLACE INTO tweets: (username, tweet_id) is UNIQUE
updateTweetStatus(u, tweetId, status, errorMessage) ==
    {r \in tweets : ~(r.username = u /\ r.tweet_id = tweetId)}
      \cup {[username |-> u, tweet_id |-> tweetId, status |-> status,
             error_message |-> errorMessage]}

\* getFailedTweets without the condition on the status
getFailedTweets_AnyStatus(u) ==
    {r.tweet_id : r \in {x \in tweets : x.username = u}}

\* SELECT tweet_id FROM tweets WHERE username = ? AND status = 'failed'
getFailedTweets(u) ==
    {r.tweet_id : r \in {x \in tweets : x.username = u /\ x.status = "failed"}}

\* the outcomes a Status Store operation may have: TRUE is success
StoreOutcomes == IF env.faults > 0 THEN {TRUE, FALSE} ELSE {TRUE}

(***************************************************************************)
(* Content Sink (storage adapters).                                        *)
(***************************************************************************)
\* {account}/{text|photos|videos}/{tweet_id}[_{media id}].{ext}; every tweet
\* of the model carries at most one photo or video, so the media id is fixed
Dirs == {"text", "photos", "videos"}
Paths == Usernames \X Dirs \X TweetIds

\* fs.pathExists / HeadObject: a partially written file exists
pathExists(s, filePath) == s[filePath] # "absent"

\* LocalStorageAdapter.writeFile: fs.writeFile replaces the file
LocalWriteFile(s, filePath, data) == [s EXCEPT ![filePath] = data]

\* S3StorageAdapter.writeFile: PutObject replaces the object
S3WriteFile(s, filePath, data) == [s EXCEPT ![filePath] = data]

\* LocalStorageAdapter.downloadFile without the check of the path
LocalDownloadFile_NoExistsCheck(s, url, filePath, net) ==
    IF net = "cut"
    THEN [sink |-> [s EXCEPT ![filePath] = "partial"], threw |-> TRUE,
          fetched |-> {filePath}]
    ELSE IF net # "ok"
    THEN [sink |-> s, threw |-> TRUE, fetched |-> {filePath}]
    ELSE [sink |-> [s EXCEPT ![filePath] = url], threw |-> FALSE,
          fetched |-> {filePath}]

\* LocalStorageAdapter.downloadFile; net is the outcome of the HTTP GET: "ok",
\* "error" (the request is rejected) or "cut" (the response arrives and its
\* body breaks off).  The body is piped into the file of the final path, so
\* a body that breaks off leaves the part received; the call then does not
\* return normally (threw): the writer never finishes.
LocalDownloadFile(s, url, filePath, net) ==
    IF pathExists(s, filePath)
    THEN [sink |-> s, threw |-> FALSE, fetched |-> {}]
    ELSE IF net = "cut"
         THEN [sink |-> [s EXCEPT ![filePath] = "partial"], threw |-> TRUE,
               fetched |-> {filePath}]
         ELSE IF net # "ok"
         THEN [sink |-> s, threw |-> TRUE, fetched |-> {filePath}]
         ELSE [sink |-> [s EXCEPT ![filePath] = url], threw |-> FALSE,
               fetched |-> {filePath}]

\* S3StorageAdapter.downloadFile: the body is buffered (arraybuffer), then
\* put; a request that fails or a body that breaks off rejects before the put
S3DownloadFile(s, url, filePath, net) ==
    IF pathExists(s, filePath)
    THEN [sink |-> s, threw |-> FALSE, fetched |-> {}]
    ELSE IF net # "ok"
         THEN [sink |-> s, threw |-> TRUE, fetched |-> {filePath}]
         ELSE [sink |-> S3WriteFile(s, filePath, url), threw |-> FALSE,
               fetched |-> {filePath}]

\* createStorageAdapter: the adapter the configured mode selects
storageWriteFile(mode, s, filePath, data) ==
    IF mode = "s3" THEN S3WriteFile(s, filePath, data)
    ELSE LocalWriteFile(s, filePath, data)

storageDownloadFile(mode, s, url, filePath, net) ==
    IF mode = "s3" THEN S3DownloadFile(s, url, filePath, net)
    ELSE LocalDownloadFile(s, url, filePath, net)

(***************************************************************************)
(* Downloader.                                                             *)
(***************************************************************************)
\* a filter that keeps the variants of every content type
Mp4Variants_AnyType(variants) ==
    SelectSeq(variants, LAMBDA v : v.url # "")

\* the mp4 variants that carry a url, in the order of the payload
Mp4Variants(variants) ==
    SelectSeq(variants, LAMBDA v : v.content_type = "video/mp4" /\ v.url # "")

\* Downloader.selectVideoUrl: the sort is stable, so among equal bitrates the
\* first variant of the payload wins; "" stands for null
selectVideoUrl(variants, videoQuality) ==
    LET mp4Variants == Mp4Variants(variants)
        Before(a, b) == IF videoQuality = "highest" THEN a.bitrate > b.bitrate
                        ELSE a.bitrate < b.bitrate
        first == CHOOSE i \in 1..Len(mp4Variants) :
                    /\ \A j \in 1..Len(mp4Variants) : ~Before(mp4Variants[j], mp4Variants[i])
                    /\ \A j \in 1..(i - 1) : Before(mp4Variants[i], mp4Variants[j])
    IN  IF Len(mp4Variants) = 0 THEN "" ELSE mp4Variants[first].url

\* Downloader.downloadPhoto: an error of downloadFile is logged and swallowed
downloadPhoto(acc, mode, username, tweetId, photo, net) ==
    LET r == storageDownloadFile(mode, acc.sink, photo.media_url_https,
                                 <<username, "photos", tweetId>>, net)
    IN  [sink |-> r.sink, fetched |-> acc.fetched \cup r.fetched]

\* a downloadVideo that requests the video whatever selectVideoUrl returned
downloadVideo_NoSkip(acc, mode, username, tweetId, video, net) ==
    LET videoUrl == selectVideoUrl(video.variants, downloadOptions.videoQuality)
        r == storageDownloadFile(mode, acc.sink, videoUrl,
                                 <<username, "videos", tweetId>>, net)
    IN  [sink |-> r.sink, fetched |-> acc.fetched \cup r.fetched]

\* Downloader.downloadVideo: no mp4 variant skips the video; an error of
\* downloadFile is logged and swallowed
downloadVideo(acc, mode, username, tweetId, video, net) ==
    LET videoUrl == selectVideoUrl(video.variants, downloadOptions.videoQuality)
        r == storageDownloadFile(mode, acc.sink, videoUrl,
                                 <<username, "videos", tweetId>>, net)
    IN  IF videoUrl = "" THEN acc
        ELSE [sink |-> r.sink, fetched |-> acc.fetched \cup r.fetched]

RECURSIVE downloadPhotos(_, _, _, _, _, _)
downloadPhotos(acc, mode, username, tweetId, photos, net) ==
    IF photos = <<>> THEN acc
    ELSE downloadPhotos(downloadPhoto(acc, mode, username, tweetId, Head(photos), net),
                        mode, username, tweetId, Tail(photos), net)

RECURSIVE downloadVideos(_, _, _, _, _, _)
downloadVideos(acc, mode, username, tweetId, videos, net) ==
    IF videos = <<>> THEN acc
    ELSE downloadVideos(downloadVideo(acc, mode, username, tweetId, Head(videos), net),
                        mode, username, tweetId, Tail(videos), net)

\* Downloader.downloadText: writeJson of the record of the tweet
downloadText(s, mode, username, tweet) ==
    storageWriteFile(mode, s, <<username, "text", tweet.tweet_id>>, "json")

\* Downloader.downloadTweet: text, then each photo, then each video.
\* textOk: the write of the text succeeds; net: the outcome of the media GETs.
\* The result tells whether downloadTweet threw, the paths it requested over
\* the network and the paths it wrote.
downloadTweet(s, mode, username, tweet, textOk, net) ==
    LET s1 == IF downloadOptions.downloadText
              THEN downloadText(s, mode, username, tweet) ELSE s
        a1 == [sink |-> s1, fetched |-> {}]
        a2 == IF downloadOptions.downloadPhotos
              THEN downloadPhotos(a1, mode, username, tweet.tweet_id, tweet.photo, net)
              ELSE a1
        a3 == IF downloadOptions.downloadVideos
              THEN downloadVideos(a2, mode, username, tweet.tweet_id, tweet.video, net)
              ELSE a2
        text == IF downloadOptions.downloadText
                THEN {<<username, "text", tweet.tweet_id>>} ELSE {}
    IN  IF downloadOptions.downloadText /\ ~textOk
        THEN [sink |-> s, threw |-> TRUE, fetched |-> {}, written |-> {}]
        ELSE [sink |-> a3.sink, threw |-> FALSE, fetched |-> a3.fetched,
              written |-> text \cup {f \in a3.fetched : a3.sink[f] # s1[f]}]

\* the sinks a process stop in the middle of downloadTweet may leave: nothing
\* written yet, the text written, a media file of the local backend partly
\* written (the stream is piped into the file), or everything written
downloadTweetInterrupted(s, mode, username, tweet) ==
    LET s1 == IF downloadOptions.downloadText
              THEN downloadText(s, mode, username, tweet) ELSE s
        full == downloadTweet(s, mode, username, tweet, TRUE, "ok").sink
        partial == [p \in Paths |->
                      IF full[p] # s1[p] /\ mode = "local" THEN "partial" ELSE s1[p]]
    IN  {s, s1, partial, full}

(***************************************************************************)
(* Monitor: invocations of checkUser and retryFailedTweets.  An invocation *)
(* advances from one await to the next; pass[w] holds its local variables  *)
(* and, for the properties, what it did (candidates, thrown, attempted,    *)
(* wrote, orphans, was, detail, marked: the item for which its latest      *)
(* status write was 'downloading', calls: its listing calls, response:     *)
(* the answer to the latest of them, saves: its saveLastTweetId calls).    *)
(***************************************************************************)
Idle ==
    [pc |-> "idle", op |-> "none", username |-> "", lastTweetId |-> NULL,
     isNewUser |-> FALSE, cursor |-> 0, allTweets |-> <<>>, tweets |-> <<>>,
     current |-> NULL, processedTweets |-> 0, failedCount |-> 0,
     failedTweetIds |-> <<>>, outcome |-> "none",
     first |-> NULL, candidates |-> <<>>, thrown |-> {}, attempted |-> {},
     orphans |-> {}, wrote |-> FALSE, after |-> "none", clean |-> FALSE,
     batch |-> <<>>, listed |-> FALSE, readFault |-> FALSE, fresh |-> FALSE,
     was |-> "none", detail |-> "none", marked |-> NULL, calls |-> 0,
     response |-> "none", saves |-> 0]

\* the ids of the account that are in status 'downloading'
Downloading(u) ==
    {r.tweet_id : r \in {x \in tweets : x.username = u /\ x.status = "downloading"}}

\* all the orders in which the rows of a query may be returned
RECURSIVE Orders(_)
Orders(S) ==
    IF S = {} THEN {<<>>}
    ELSE UNION {{<<x>> \o o : o \in Orders(S \ {x})} : x \in S}

\* allTweets.slice(0, n)
Slice(seq, n) == SubSeq(seq, 1, IF Len(seq) < n THEN Len(seq) ELSE n)

Range(seq) == {seq[k] : k \in 1..Len(seq)}

\* the items of the listing of u that pass the filter of the delta path
PassFilter(u) == {id \in Range(Timeline(u)) : ~StrLessEq(id, getLastTweetId(u))}

NoFault == env' = env
Fault(ok) == env' = IF ok THEN env ELSE [env EXCEPT !.faults = @ - 1]

\* the outcomes a download may have: whether the write of the text succeeds
\* and the outcome of the HTTP GET of a photo or video
DownloadOutcomes ==
    IF env.failures = 0 THEN {<<TRUE, "ok">>}
    ELSE BOOLEAN \X {"ok", "error"}

\* the environment after a download with outcome d and a Status Store write
\* with outcome ok
DownloadFault(d, ok) ==
    env' = [env EXCEPT
              !.faults = IF ok THEN @ ELSE @ - 1,
              !.failures = IF d # <<TRUE, "ok">> /\ @ > 0 THEN @ - 1 ELSE @]

\* worker w may start a pass: the second worker runs the passes that are
\* started without waiting for the pass in progress
MayStart(w) == w = "w1" \/ env.overlaps > 0

\* the environment e after worker w started a pass
Started(w, e) == IF w = "w1" THEN e ELSE [e EXCEPT !.overlaps = @ - 1]

\* a checkUser in which a failed read of the cursor ends the invocation
checkUserCall_ReadThrows(w, u) ==
    /\ w \in workers
    /\ pass[w].pc = "idle"
    /\ MayStart(w)
    /\ \E ok \in StoreOutcomes :
         LET lastTweetId == IF ok THEN getLastTweetId(u) ELSE NULL
             isNewUser == lastTweetId = NULL
         IN  /\ pass' = [pass EXCEPT ![w] =
                   [Idle EXCEPT !.pc = IF ~ok THEN "done"
                                      ELSE IF isNewUser THEN "fetchInitial"
                                      ELSE "fetchMedia",
                                !.outcome = IF ~ok THEN "threw" ELSE "none",
                                !.op = "checkUser", !.username = u,
                                !.lastTweetId = lastTweetId,
                                !.isNewUser = isNewUser,
                                !.orphans = Downloading(u),
                                !.fresh = \A r \in tweets : r.username # u,
                                !.after = lastRun[u],
                                !.clean = \A id \in PassFilter(u) :
                                             getTweetStatus(u, id) = "completed"]]
             /\ env' = Started(w, IF ok THEN env
                                  ELSE [env EXCEPT !.faults = @ - 1])
    /\ UNCHANGED <<remote, users, tweets, sink, storageMode, workers, lastRun>>
    /\ netLog' = {}
    /\ writeLog' = {}

\* checkUser, up to the first await: Monitor.getLastTweetId returns null when
\* the read fails
checkUserCall(w, u) ==
    /\ w \in workers
    /\ pass[w].pc = "idle"
    /\ MayStart(w)
    /\ \E ok \in StoreOutcomes :
         LET lastTweetId == IF ok THEN getLastTweetId(u) ELSE NULL
             isNewUser == lastTweetId = NULL
         IN  /\ pass' = [pass EXCEPT ![w] =
                   [Idle EXCEPT !.pc = IF isNewUser THEN "fetchInitial" ELSE "fetchMedia",
                                !.op = "checkUser", !.username = u,
                                !.lastTweetId = lastTweetId,
                                !.isNewUser = isNewUser,
                                !.orphans = Downloading(u),
                                !.fresh = \A r \in tweets : r.username # u,
                                !.after = lastRun[u],
                                !.clean = \A id \in PassFilter(u) :
                                             getTweetStatus(u, id) = "completed"]]
             /\ env' = Started(w, IF ok THEN env
                                  ELSE [env EXCEPT !.faults = @ - 1])
    /\ UNCHANGED <<remote, users, tweets, sink, storageMode, workers, lastRun>>
    /\ netLog' = {}
    /\ writeLog' = {}

\* checkUser called for a monitored account, by the tick or by an admin
\* request for an account of the list
checkUser(w, u) ==
    /\ u \in Range(targetUsers)
    /\ checkUserCall(w, u)
    /\ UNCHANGED <<targetUsers, usersFile, tick, call>>

\* what a listing call may answer: a page ("ok"), a response without
\* timeline ("nodata"), an error, or an empty page that carries a next-page
\* token ("stalled")
ListingOutcomes ==
    {"ok", "nodata", "error"} \cup (IF env.stalls > 0 THEN {"stalled"} ELSE {})

\* a bootstrap retrieval that, when a listing call fails, returns the pages
\* fetched before the failure
fetchInitialTweets_KeepsPages(w) ==
    LET p == pass[w]
        u == p.username
    IN
    /\ p.pc = "fetchInitial"
    /\ \E api \in ListingOutcomes, n \in 1..PageSize :
         LET timeline == IF api = "stalled" THEN <<>> ELSE Page(u, p.cursor, n)
             allTweets == p.allTweets \o timeline
             next_cursor == p.cursor + Len(timeline)
             hasNext == api = "stalled" \/ next_cursor < Len(Timeline(u))
             q == [p EXCEPT !.calls = p.calls + 1, !.response = api]
         IN  /\ pass' = [pass EXCEPT ![w] =
                   CASE api = "error" ->
                          [q EXCEPT !.pc = "loop",
                                    !.tweets = Slice(p.allTweets, maxInitialTweets),
                                    !.batch = Slice(p.allTweets, maxInitialTweets)]
                     [] api = "nodata" ->
                          [q EXCEPT !.pc = "loop",
                                    !.tweets = Slice(p.allTweets, maxInitialTweets),
                                    !.batch = Slice(p.allTweets, maxInitialTweets)]
                     [] OTHER ->
                          IF hasNext /\ Len(allTweets) < maxInitialTweets
                          THEN [q EXCEPT !.cursor = next_cursor, !.allTweets = allTweets]
                          ELSE [q EXCEPT !.pc = "loop", !.allTweets = allTweets,
                                         !.tweets = Slice(allTweets, maxInitialTweets),
                                         !.batch = Slice(allTweets, maxInitialTweets),
                                         !.listed = TRUE]]
             /\ env' = IF api = "stalled" THEN [env EXCEPT !.stalls = @ - 1] ELSE env
    /\ UNCHANGED <<remote, users, tweets, sink,
                   storageMode, workers, targetUsers, usersFile, tick, call, lastRun>>
    /\ netLog' = {}
    /\ writeLog' = {}

\* one iteration of the loop of fetchInitialTweets: a listing call.  The
\* token of the next page is the number of items listed so far; hasNext tells
\* whether the response carries one.
fetchInitialTweets(w) ==
    LET p == pass[w]
        u == p.username
    IN
    /\ p.pc = "fetchInitial"
    /\ \E api \in ListingOutcomes, n \in 1..PageSize :
         LET timeline == IF api = "stalled" THEN <<>> ELSE Page(u, p.cursor, n)
             allTweets == p.allTweets \o timeline
             next_cursor == p.cursor + Len(timeline)
             hasNext == api = "stalled" \/ next_cursor < Len(Timeline(u))
             q == [p EXCEPT !.calls = p.calls + 1, !.response = api]
         IN  /\ pass' = [pass EXCEPT ![w] =
                   CASE api = "error" ->
                          [q EXCEPT !.pc = "loop", !.tweets = <<>>]
                     [] api = "nodata" ->
                          [q EXCEPT !.pc = "loop",
                                    !.tweets = Slice(p.allTweets, maxInitialTweets),
                                    !.batch = Slice(p.allTweets, maxInitialTweets)]
                     [] OTHER ->
                          IF hasNext /\ Len(allTweets) < maxInitialTweets
                          THEN [q EXCEPT !.cursor = next_cursor, !.allTweets = allTweets]
                          ELSE [q EXCEPT !.pc = "loop", !.allTweets = allTweets,
                                         !.tweets = Slice(allTweets, maxInitialTweets),
                                         !.batch = Slice(allTweets, maxInitialTweets),
                                         !.listed = TRUE]]
             /\ env' = IF api = "stalled" THEN [env EXCEPT !.stalls = @ - 1] ELSE env
    /\ UNCHANGED <<remote, users, tweets, sink,
                   storageMode, workers, targetUsers, usersFile, tick, call, lastRun>>
    /\ netLog' = {}
    /\ writeLog' = {}

\* a delta path that reads response.data.timeline without the check of the
\* response: iterating over a missing timeline throws
afterFetchUserMedia_NoCheck(p, api, timeline) ==
    CASE api \in {"error", "nodata"} -> [p EXCEPT !.pc = "done", !.outcome = "threw"]
      [] OTHER -> [p EXCEPT !.pc = "loop", !.tweets = timeline,
                            !.batch = timeline, !.listed = TRUE]

\* checkUser after the listing call of the delta path: the call threw, the
\* response lacks a timeline (return), or its timeline is the batch
afterFetchUserMedia(p, api, timeline) ==
    CASE api = "error" -> [p EXCEPT !.pc = "done", !.outcome = "threw"]
      [] api = "nodata" -> [p EXCEPT !.pc = "done", !.outcome = "nodata"]
      [] OTHER -> [p EXCEPT !.pc = "loop", !.tweets = timeline,
                            !.batch = timeline, !.listed = TRUE]

\* a delta path that calls the listing again with the returned token while
\* the items collected are all newer than the cursor
fetchUserMedia_FollowsToken(w) ==
    LET p == pass[w]
        u == p.username
    IN
    /\ p.pc = "fetchMedia"
    /\ \E api \in ListingOutcomes, n \in 1..PageSize :
         LET timeline == IF api = "stalled" THEN <<>> ELSE Page(u, p.cursor, n)
             allTweets == p.allTweets \o timeline
             next_cursor == p.cursor + Len(timeline)
             hasNext == api = "stalled" \/ next_cursor < Len(Timeline(u))
             q == [p EXCEPT !.calls = p.calls + 1, !.response = api]
         IN  /\ pass' = [pass EXCEPT ![w] =
                   IF /\ api = "ok"
                      /\ hasNext
                      /\ \A k \in 1..Len(allTweets) :
                             ~StrLessEq(allTweets[k], p.lastTweetId)
                   THEN [q EXCEPT !.cursor = next_cursor, !.allTweets = allTweets]
                   ELSE afterFetchUserMedia(q, api, allTweets)]
             /\ env' = IF api = "stalled" THEN [env EXCEPT !.stalls = @ - 1] ELSE env
    /\ UNCHANGED <<remote, users, tweets, sink,
                   storageMode, workers, targetUsers, usersFile, tick, call, lastRun>>
    /\ netLog' = {}
    /\ writeLog' = {}

\* the listing call of the delta path: one page, no token; the token of the
\* response is not read
fetchUserMedia(w) ==
    LET p == pass[w]
        u == p.username
    IN
    /\ p.pc = "fetchMedia"
    /\ \E api \in ListingOutcomes, n \in 1..PageSize :
         LET timeline == IF api = "stalled" THEN <<>> ELSE Page(u, 0, n)
         IN  /\ pass' = [pass EXCEPT ![w] =
                   afterFetchUserMedia([p EXCEPT !.calls = p.calls + 1,
                                                 !.response = api],
                                       api, timeline)]
             /\ env' = IF api = "stalled" THEN [env EXCEPT !.stalls = @ - 1] ELSE env
    /\ UNCHANGED <<remote, users, tweets, sink,
                   storageMode, workers, targetUsers, usersFile, tick, call, lastRun>>
    /\ netLog' = {}
    /\ writeLog' = {}

\* a batch loop that does not compare the ids with the cursor
checkUserLoop_NoFilter(w) ==
    LET p == pass[w]
        u == p.username
        tweet_id == Head(p.tweets)
    IN
    /\ p.pc = "loop"
    /\ IF p.tweets = <<>>
       THEN /\ pass' = [pass EXCEPT ![w].pc = "summary"]
            /\ NoFault
       ELSE IF p.isNewUser /\ p.processedTweets >= maxInitialTweets
       THEN /\ pass' = [pass EXCEPT ![w].pc = "summary"]
            /\ NoFault
       ELSE \E ok \in StoreOutcomes :
              LET isDownloaded == ok /\ isTweetDownloaded(u, tweet_id)
                  q == [p EXCEPT !.processedTweets = p.processedTweets + 1,
                                 !.first = IF p.processedTweets = 0
                                           THEN tweet_id ELSE p.first,
                                 !.readFault = ~ok]
              IN  /\ pass' = [pass EXCEPT ![w] =
                        IF isDownloaded
                        THEN [q EXCEPT !.tweets = Tail(p.tweets)]
                        ELSE [q EXCEPT !.pc = "mark", !.current = tweet_id]]
                  /\ Fault(ok)
    /\ UNCHANGED <<remote, users, tweets, sink,
                   storageMode, workers, targetUsers, usersFile, tick, call, lastRun>>
    /\ netLog' = {}
    /\ writeLog' = {}

\* the head of the batch loop, up to isTweetDownloaded (which is false when
\* the read fails)
checkUserLoop(w) ==
    LET p == pass[w]
        u == p.username
        tweet_id == Head(p.tweets)
    IN
    /\ p.pc = "loop"
    /\ IF p.tweets = <<>>
       THEN /\ pass' = [pass EXCEPT ![w].pc = "summary"]
            /\ NoFault
       ELSE IF ~p.isNewUser /\ StrLessEq(tweet_id, p.lastTweetId)
       THEN /\ pass' = [pass EXCEPT ![w].tweets = Tail(p.tweets)]
            /\ NoFault
       ELSE IF p.isNewUser /\ p.processedTweets >= maxInitialTweets
       THEN /\ pass' = [pass EXCEPT ![w].pc = "summary"]
            /\ NoFault
       ELSE \E ok \in StoreOutcomes :
              LET isDownloaded == ok /\ isTweetDownloaded(u, tweet_id)
                  q == [p EXCEPT !.processedTweets = p.processedTweets + 1,
                                 !.first = IF p.processedTweets = 0
                                           THEN tweet_id ELSE p.first,
                                 !.readFault = ~ok]
              IN  /\ pass' = [pass EXCEPT ![w] =
                        IF isDownloaded
                        THEN [q EXCEPT !.tweets = Tail(p.tweets)]
                        ELSE [q EXCEPT !.pc = "mark", !.current = tweet_id]]
                  /\ Fault(ok)
    /\ UNCHANGED <<remote, users, tweets, sink,
                   storageMode, workers, targetUsers, usersFile, tick, call, lastRun>>
    /\ netLog' = {}
    /\ writeLog' = {}

\* a batch loop that starts an attempt without the write of 'downloading'
checkUserMark_NoWrite(w) ==
    LET p == pass[w]
        u == p.username
        tweet == Payload(p.current, KindOf(u, p.current))
    IN
    /\ p.pc = "mark"
    /\ IF ~tweet.hasText
       THEN /\ pass' = [pass EXCEPT ![w].pc = "done", ![w].outcome = "threw"]
            /\ UNCHANGED tweets
            /\ NoFault
       ELSE \E ok \in {TRUE} :
              /\ tweets' = tweets
              /\ pass' = [pass EXCEPT ![w].pc = "download",
                                      ![w].candidates = Append(p.candidates, p.current),
                                      ![w].attempted = p.attempted \cup {p.current},
                                      ![w].wrote = TRUE,
                                      ![w].was = getTweetStatus(u, p.current)]
              /\ Fault(ok)
    /\ UNCHANGED <<remote, users, sink,
                   storageMode, workers, targetUsers, usersFile, tick, call, lastRun>>
    /\ netLog' = {}
    /\ writeLog' = {}

\* the log line that reads tweet.text (outside the try), then the write of
\* 'downloading'; Monitor.updateTweetStatus swallows a failed write
checkUserMark(w) ==
    LET p == pass[w]
        u == p.username
        tweet == Payload(p.current, KindOf(u, p.current))
    IN
    /\ p.pc = "mark"
    /\ IF ~tweet.hasText
       THEN /\ pass' = [pass EXCEPT ![w].pc = "done", ![w].outcome = "threw"]
            /\ UNCHANGED tweets
            /\ NoFault
       ELSE \E ok \in StoreOutcomes :
              /\ tweets' = IF ok
                           THEN updateTweetStatus(u, p.current, "downloading", "")
                           ELSE tweets
              /\ pass' = [pass EXCEPT ![w].pc = "download",
                                      ![w].candidates = Append(p.candidates, p.current),
                                      ![w].attempted = p.attempted \cup {p.current},
                                      ![w].wrote = TRUE,
                                      ![w].was = getTweetStatus(u, p.current),
                                      ![w].marked = p.current]
              /\ Fault(ok)
    /\ UNCHANGED <<remote, users, sink,
                   storageMode, workers, targetUsers, usersFile, tick, call, lastRun>>
    /\ netLog' = {}
    /\ writeLog' = {}

\* a catch block that leaves the batch loop
afterCatch_Break(p) ==
    [p EXCEPT !.pc = "summary",
              !.failedCount = p.failedCount + 1,
              !.thrown = p.thrown \cup {p.current}]

\* the catch block of the batch loop: the failure is counted and the loop
\* goes on with the next tweet
afterCatch(p) ==
    [p EXCEPT !.pc = "loop", !.tweets = Tail(p.tweets),
              !.failedCount = p.failedCount + 1,
              !.thrown = p.thrown \cup {p.current}]

\* a batch loop that saves the cursor after the first processed tweet
\* whether its download succeeded or not
afterDownload_CursorOutsideTry(p, threw) ==
    LET q == IF threw
             THEN [p EXCEPT !.failedCount = p.failedCount + 1,
                            !.thrown = p.thrown \cup {p.current}]
             ELSE p
    IN  IF p.processedTweets = 1
        THEN [q EXCEPT !.pc = "saveCursor"]
        ELSE [q EXCEPT !.pc = "loop", !.tweets = Tail(p.tweets)]

\* where the batch loop goes after downloadTweet: to the catch block when it
\* threw; else the cursor is saved when this is the first processed tweet
afterDownload(p, threw) ==
    IF threw
    THEN afterCatch(p)
    ELSE IF p.processedTweets = 1
    THEN [p EXCEPT !.pc = "saveCursor"]
    ELSE [p EXCEPT !.pc = "loop", !.tweets = Tail(p.tweets)]

\* a batch loop that saves the cursor after every item downloaded with success
checkUserDownload_SavesEveryItem(w) ==
    LET p == pass[w]
        u == p.username
        tweet == Payload(p.current, KindOf(u, p.current))
    IN
    /\ p.pc = "download"
    /\ \E d \in DownloadOutcomes, ok \in StoreOutcomes :
         LET r == downloadTweet(sink, storageMode, u, tweet, d[1], d[2])
         IN  /\ sink' = r.sink
             /\ netLog' = r.fetched
             /\ writeLog' = r.written
             /\ tweets' = IF ~ok THEN tweets
                          ELSE IF r.threw
                          THEN updateTweetStatus(u, p.current, "failed", "error")
                          ELSE updateTweetStatus(u, p.current, "completed", "")
             /\ DownloadFault(d, ok)
             /\ pass' = [pass EXCEPT ![w] =
                            [(IF r.threw THEN afterCatch(p)
                              ELSE [p EXCEPT !.pc = "saveCursor"])
                                EXCEPT !.was = "none", !.marked = NULL]]
    /\ UNCHANGED <<remote, users, storageMode,
                   workers, targetUsers, usersFile, tick, call, lastRun>>

\* the try block of the batch loop: downloadTweet, then the write of
\* 'completed', or of 'failed' in the catch
checkUserDownload(w) ==
    LET p == pass[w]
        u == p.username
        tweet == Payload(p.current, KindOf(u, p.current))
    IN
    /\ p.pc = "download"
    /\ \E d \in DownloadOutcomes, ok \in StoreOutcomes :
         LET r == downloadTweet(sink, storageMode, u, tweet, d[1], d[2])
         IN  /\ sink' = r.sink
             /\ netLog' = r.fetched
             /\ writeLog' = r.written
             /\ tweets' = IF ~ok THEN tweets
                          ELSE IF r.threw
                          THEN updateTweetStatus(u, p.current, "failed", "error")
                          ELSE updateTweetStatus(u, p.current, "completed", "")
             /\ DownloadFault(d, ok)
             /\ pass' = [pass EXCEPT ![w] =
                            [afterDownload(p, r.threw) EXCEPT !.was = "none",
                                                              !.marked = NULL]]
    /\ UNCHANGED <<remote, users, storageMode,
                   workers, targetUsers, usersFile, tick, call, lastRun>>

\* saveLastTweetId for the first processed tweet, after its download
\* succeeded; Monitor.saveLastTweetId swallows a failed write
checkUserSaveCursor(w) ==
    LET p == pass[w]
        u == p.username
    IN
    /\ p.pc = "saveCursor"
    /\ \E ok \in StoreOutcomes :
         /\ users' = IF ok THEN saveLastTweetId(u, p.current) ELSE users
         /\ Fault(ok)
    /\ pass' = [pass EXCEPT ![w].pc = "loop", ![w].tweets = Tail(p.tweets),
                            ![w].saves = p.saves + 1]
    /\ UNCHANGED <<remote, tweets, sink,
                   storageMode, workers, targetUsers, usersFile, tick, call, lastRun>>
    /\ netLog' = {}
    /\ writeLog' = {}

\* a summary that starts the retry pass when an item was processed
checkUserSummary_OnProcessed(w) ==
    LET p == pass[w]
    IN
    /\ p.pc = "summary"
    /\ pass' = [pass EXCEPT ![w] =
          IF p.processedTweets > 0 THEN [p EXCEPT !.pc = "retryList"]
          ELSE [p EXCEPT !.pc = "done", !.outcome = "returned"]]
    /\ UNCHANGED <<remote, users, tweets, sink,
                   storageMode, workers, targetUsers, usersFile, tick, call, env, lastRun>>
    /\ netLog' = {}
    /\ writeLog' = {}

\* after the batch: the retry pass runs when an item of the batch failed
checkUserSummary(w) ==
    LET p == pass[w]
    IN
    /\ p.pc = "summary"
    /\ pass' = [pass EXCEPT ![w] =
          IF p.failedCount > 0 THEN [p EXCEPT !.pc = "retryList"]
          ELSE [p EXCEPT !.pc = "done", !.outcome = "returned"]]
    /\ UNCHANGED <<remote, users, tweets, sink,
                   storageMode, workers, targetUsers, usersFile, tick, call, env, lastRun>>
    /\ netLog' = {}
    /\ writeLog' = {}

\* retryFailedTweets, called on its own (the admin 'retry' request)
retryFailedTweets(w, u) ==
    /\ w \in workers
    /\ u \in Range(targetUsers)
    /\ pass[w].pc = "idle"
    /\ MayStart(w)
    /\ pass' = [pass EXCEPT ![w] =
          [Idle EXCEPT !.pc = "retryList", !.op = "retryFailedTweets",
                       !.username = u, !.orphans = Downloading(u)]]
    /\ env' = Started(w, env)
    /\ UNCHANGED <<remote, users, tweets, sink,
                   storageMode, workers, targetUsers, usersFile, tick, call, lastRun>>
    /\ netLog' = {}
    /\ writeLog' = {}

\* a retry pass that lists the items of the account whatever their status
retryList_AnyStatus(w) ==
    LET p == pass[w]
        u == p.username
    IN
    /\ p.pc = "retryList"
    /\ \E ok \in StoreOutcomes :
         /\ Fault(ok)
         /\ IF ok
            THEN \E failedTweetIds \in Orders(getFailedTweets_AnyStatus(u)) :
                   pass' = [pass EXCEPT ![w].pc = "retryItem",
                                        ![w].failedTweetIds = failedTweetIds]
            ELSE pass' = [pass EXCEPT ![w].pc = "done", ![w].outcome = "returned"]
    /\ UNCHANGED <<remote, users, tweets, sink,
                   storageMode, workers, targetUsers, usersFile, tick, call, lastRun>>
    /\ netLog' = {}
    /\ writeLog' = {}

\* getFailedTweets: a failed read ends the retry pass (outer catch)
retryList(w) ==
    LET p == pass[w]
        u == p.username
    IN
    /\ p.pc = "retryList"
    /\ \E ok \in StoreOutcomes :
         /\ Fault(ok)
         /\ IF ok
            THEN \E failedTweetIds \in Orders(getFailedTweets(u)) :
                   pass' = [pass EXCEPT ![w].pc = "retryItem",
                                        ![w].failedTweetIds = failedTweetIds]
            ELSE pass' = [pass EXCEPT ![w].pc = "done", ![w].outcome = "returned"]
    /\ UNCHANGED <<remote, users, tweets, sink,
                   storageMode, workers, targetUsers, usersFile, tick, call, lastRun>>
    /\ netLog' = {}
    /\ writeLog' = {}

\* one iteration of the retry loop, up to the write of 'downloading':
\* fetchTweetDetail, whose error is written 'failed' by the catch
retryItem(w) ==
    LET p == pass[w]
        u == p.username
        tweetId == Head(p.failedTweetIds)
    IN
    /\ p.pc = "retryItem"
    /\ IF p.failedTweetIds = <<>>
       THEN /\ pass' = [pass EXCEPT ![w].pc = "done", ![w].outcome = "returned",
                                    ![w].detail = "none"]
            /\ UNCHANGED tweets
            /\ NoFault
       ELSE \E api \in {"ok", "nodata", "error"}, ok \in StoreOutcomes :
              CASE api = "nodata" ->
                     /\ pass' = [pass EXCEPT ![w].failedTweetIds = Tail(p.failedTweetIds),
                                             ![w].detail = api]
                     /\ UNCHANGED tweets
                     /\ NoFault
                [] api = "error" ->
                     /\ tweets' = IF ok
                                  THEN updateTweetStatus(u, tweetId, "failed", "error")
                                  ELSE tweets
                     /\ Fault(ok)
                     /\ pass' = [pass EXCEPT ![w].failedTweetIds = Tail(p.failedTweetIds),
                                             ![w].wrote = TRUE,
                                             ![w].detail = api]
                [] OTHER ->
                     /\ tweets' = IF ok
                                  THEN updateTweetStatus(u, tweetId, "downloading", "")
                                  ELSE tweets
                     /\ Fault(ok)
                     /\ pass' = [pass EXCEPT ![w].pc = "retryDownload",
                                             ![w].current = tweetId,
                                             ![w].attempted = p.attempted \cup {tweetId},
                                             ![w].wrote = TRUE,
                                             ![w].detail = api,
                                             ![w].marked = tweetId]
    /\ UNCHANGED <<remote, users, sink,
                   storageMode, workers, targetUsers, usersFile, tick, call, lastRun>>
    /\ netLog' = {}
    /\ writeLog' = {}

\* a retry loop that saves the id of a retried item as the cursor
retryDownload_SavesCursor(w) ==
    LET p == pass[w]
        u == p.username
        tweet == Payload(p.current, KindOf(u, p.current))
    IN
    /\ p.pc = "retryDownload"
    /\ \E d \in DownloadOutcomes, ok \in StoreOutcomes :
         LET r == downloadTweet(sink, storageMode, u, tweet, d[1], d[2])
         IN  /\ sink' = r.sink
             /\ netLog' = r.fetched
             /\ writeLog' = r.written
             /\ tweets' = IF ~ok THEN tweets
                          ELSE IF r.threw
                          THEN updateTweetStatus(u, p.current, "failed", "error")
                          ELSE updateTweetStatus(u, p.current, "completed", "")
             /\ DownloadFault(d, ok)
             /\ users' = IF r.threw THEN users
                         ELSE saveLastTweetId(u, p.current)
    /\ pass' = [pass EXCEPT ![w].pc = "retryItem",
                            ![w].failedTweetIds = Tail(p.failedTweetIds),
                            ![w].detail = "none",
                            ![w].marked = NULL]
    /\ UNCHANGED <<remote, storageMode,
                   workers, targetUsers, usersFile, tick, call, lastRun>>

\* the download of the retry loop, then the write of 'completed' or 'failed'
retryDownload(w) ==
    LET p == pass[w]
        u == p.username
        tweet == Payload(p.current, KindOf(u, p.current))
    IN
    /\ p.pc = "retryDownload"
    /\ \E d \in DownloadOutcomes, ok \in StoreOutcomes :
         LET r == downloadTweet(sink, storageMode, u, tweet, d[1], d[2])
         IN  /\ sink' = r.sink
             /\ netLog' = r.fetched
             /\ writeLog' = r.written
             /\ tweets' = IF ~ok THEN tweets
                          ELSE IF r.threw
                          THEN updateTweetStatus(u, p.current, "failed", "error")
                          ELSE updateTweetStatus(u, p.current, "completed", "")
             /\ DownloadFault(d, ok)
    /\ pass' = [pass EXCEPT ![w].pc = "retryItem",
                            ![w].failedTweetIds = Tail(p.failedTweetIds),
                            ![w].detail = "none",
                            ![w].marked = NULL]
    /\ UNCHANGED <<remote, users, storageMode,
                   workers, targetUsers, usersFile, tick, call, lastRun>>

\* no operation has been called directly
NoCall == [fn |-> "none"]

\* no checkAllUsers call is in progress
NoTick == [active |-> FALSE, list |-> <<>>, queue |-> <<>>, running |-> "",
           visited |-> {}, threw |-> {}]

\* a loop without the try / catch around checkUser: a rejected promise ends
\* the loop
afterCheckUser_NoCatch(t, p) ==
    IF t.running = "" THEN t
    ELSE IF p.outcome = "threw"
    THEN [t EXCEPT !.running = "", !.queue = <<>>,
                   !.threw = t.threw \cup {p.username}]
    ELSE [t EXCEPT !.running = "", !.visited = t.visited \cup {p.username}]

\* the loop of checkAllUsers after the checkUser it awaits settled: a
\* rejection is caught and logged, and the loop goes on with the next account
afterCheckUser(t, p) ==
    IF t.running = "" THEN t
    ELSE [t EXCEPT !.running = "",
                   !.visited = t.visited \cup {p.username},
                   !.threw = IF p.outcome = "threw"
                             THEN t.threw \cup {p.username} ELSE t.threw]

\* the invocation is over: its promise settles
Return(w) ==
    LET p == pass[w]
        u == p.username
    IN
    /\ p.pc = "done"
    /\ pass' = [pass EXCEPT ![w] = Idle]
    /\ lastRun' = [lastRun EXCEPT ![u] =
          IF p.op = "checkUser" /\ ~p.isNewUser /\ p.outcome # "threw"
          THEN "delta" ELSE "none"]
    /\ tick' = afterCheckUser(tick, p)
    /\ UNCHANGED <<remote, users, tweets, sink,
                   storageMode, workers, targetUsers, usersFile, call,
                   env>>
    /\ netLog' = {}
    /\ writeLog' = {}

\* the sinks left when the process stops while the workers of ws are running
RECURSIVE Interrupted(_, _)
Interrupted(s, ws) ==
    IF ws = {} THEN {s}
    ELSE LET w == CHOOSE x \in ws : TRUE
             p == pass[w]
             after == IF p.pc \in {"download", "retryDownload"}
                      THEN downloadTweetInterrupted(s, storageMode, p.username,
                              Payload(p.current, KindOf(p.username, p.current)))
                      ELSE {s}
         IN  UNION {Interrupted(t, ws \ {w}) : t \in after}

\* the process stops abruptly and is started again: every invocation in
\* progress is lost, the Status Store and the Content Sink stay as they are
Crash ==
    /\ env.crashes > 0
    /\ env' = [env EXCEPT !.crashes = @ - 1]
    /\ \E w \in workers : pass[w].pc \notin {"idle", "done"}
    /\ pass' = [w \in WorkerIds |-> Idle]
    /\ sink' \in Interrupted(sink, workers)
    /\ lastRun' = [u \in Usernames |-> "none"]
    /\ UNCHANGED <<remote, users, tweets, storageMode, workers, targetUsers, usersFile,
                   tick, call>>
    /\ netLog' = {}
    /\ writeLog' = {}

\* the account posts a tweet, between two invocations
NewTweet(u, kind) ==
    /\ u \in Range(targetUsers)
    /\ \A w \in WorkerIds : pass[w].pc = "idle"
    /\ Len(remote[u]) < AllPosts
    /\ Len(remote[u]) < env.posts
    /\ \/ /\ kind = MediaKind(FirstId + Len(remote[u]))
          /\ env' = env
       \/ /\ kind = "notext"
          /\ env.malformed > 0
          /\ env' = [env EXCEPT !.malformed = @ - 1]
    /\ remote' = [remote EXCEPT ![u] = Append(remote[u], kind)]
    /\ lastRun' = [lastRun EXCEPT ![u] = "none"]
    /\ UNCHANGED <<users, tweets, sink, storageMode, pass, workers, targetUsers, usersFile,
                   tick, call>>
    /\ netLog' = {}
    /\ writeLog' = {}

\* the account posts a tweet while a pass is in progress
PostDuringPass(u) ==
    /\ u \in Range(targetUsers)
    /\ \E w \in workers : pass[w].pc \notin {"idle", "done"}
    /\ Len(remote[u]) < AllPosts
    /\ Len(remote[u]) < env.posts
    /\ remote' = [remote EXCEPT
                     ![u] = Append(remote[u], MediaKind(FirstId + Len(remote[u])))]
    /\ lastRun' = [lastRun EXCEPT ![u] = "none"]
    /\ UNCHANGED <<users, tweets, sink, storageMode, pass, workers, targetUsers, usersFile,
                   tick, call, env>>
    /\ netLog' = {}
    /\ writeLog' = {}

(***************************************************************************)
(* The registry of monitored accounts: the users file, written by the      *)
(* admin handlers and by the command-line tool, read by every tick.        *)
(***************************************************************************)
\* the lists the registry holds in the model: alice is listed or not
Registries == {<<>>, <<"alice">>}

\* the list without account u (newUsers.splice / users.filter)
Without(list, u) == SelectSeq(list, LAMBDA x : x # u)

\* Monitor.checkAllUsers, up to its loop: the list of the file replaces
\* targetUsers when the file holds a non-empty list; the calls of checkUser
\* for the accounts of targetUsers follow
checkAllUsers ==
    /\ targetUsers' = IF Len(usersFile) > 0 THEN usersFile ELSE targetUsers
    /\ UNCHANGED <<remote, users, tweets, sink, storageMode, pass, workers,
                   usersFile, tick, call, env, lastRun>>
    /\ netLog' = {}
    /\ writeLog' = {}

\* a cron tick: checkAllUsers re-reads the list and starts its loop over
\* targetUsers
checkAllUsersStart ==
    /\ ~tick.active
    /\ \A w \in WorkerIds : pass[w].pc = "idle"
    /\ targetUsers' = IF Len(usersFile) > 0 THEN usersFile ELSE targetUsers
    /\ tick' = [NoTick EXCEPT !.active = TRUE, !.list = targetUsers',
                              !.queue = targetUsers']
    /\ UNCHANGED <<remote, users, tweets, sink, storageMode, pass, workers,
                   usersFile, call, env, lastRun>>
    /\ netLog' = {}
    /\ writeLog' = {}

\* one iteration of the loop: checkUser is called for the next account and
\* awaited
checkAllUsersNext(w) ==
    /\ tick.active
    /\ tick.running = ""
    /\ tick.queue # <<>>
    /\ checkUserCall(w, Head(tick.queue))
    /\ tick' = [tick EXCEPT !.queue = Tail(tick.queue),
                            !.running = Head(tick.queue)]
    /\ UNCHANGED <<targetUsers, usersFile, call>>

\* the loop is over and checkAllUsers returns
checkAllUsersEnd ==
    /\ tick.active
    /\ tick.running = ""
    /\ tick.queue = <<>>
    /\ tick' = NoTick
    /\ UNCHANGED <<remote, users, tweets, sink, storageMode, pass, workers,
                   targetUsers, usersFile, call, env, lastRun>>
    /\ netLog' = {}
    /\ writeLog' = {}

\* WebServer.addUserHandler: updateUsers with the account appended, then
\* checkUser for it, not awaited
addUserHandler(w, u) ==
    /\ u \notin Range(targetUsers)
    /\ Append(targetUsers, u) \in Registries
    /\ targetUsers' = Append(targetUsers, u)
    /\ usersFile' = Append(targetUsers, u)
    /\ UNCHANGED <<tick, call>>
    /\ checkUserCall(w, u)

\* WebServer.deleteUserHandler: updateUsers with the account removed; the
\* Status Store is not touched
deleteUserHandler(u) ==
    /\ u \in Range(targetUsers)
    /\ targetUsers' = Without(targetUsers, u)
    /\ usersFile' = Without(targetUsers, u)
    /\ UNCHANGED <<tick, call>>
    /\ UNCHANGED <<remote, users, tweets, sink, storageMode, pass, workers,
                   env, lastRun>>
    /\ netLog' = {}
    /\ writeLog' = {}

\* saveUsers of the command-line tool (addUser, removeUser, clearUsers): the
\* file is written, the running service is not told
saveUsers(list) ==
    /\ list \in Registries
    /\ list # usersFile
    /\ usersFile' = list
    /\ UNCHANGED <<tick, call>>
    /\ UNCHANGED <<remote, users, tweets, sink, storageMode, pass, workers,
                   targetUsers, env, lastRun>>
    /\ netLog' = {}
    /\ writeLog' = {}

(***************************************************************************)
(* Specifications: one worker, one monitored account; invocations run one  *)
(* after another.  Spec: the process keeps running, the Status Store       *)
(* answers, any download may fail and a payload may lack its text;         *)
(* SpecCrash: the process may stop abruptly and MaxFailures downloads may  *)
(* fail; SpecStoreFaults: operations of the Status Store may fail and      *)
(* MaxFailures downloads may fail.                                         *)
(***************************************************************************)
InitStateOf(list) ==
    /\ remote = [u \in Usernames |-> <<>>]
    /\ users = {}
    /\ tweets = {}
    /\ sink = [p \in Paths |-> "absent"]
    /\ storageMode \in {"local", "s3"}
    /\ pass = [w \in WorkerIds |-> Idle]
    /\ targetUsers = list
    /\ usersFile = list
    /\ tick = NoTick
    /\ netLog = {}
    /\ writeLog = {}
    /\ lastRun = [u \in Usernames |-> "none"]

InitState == InitStateOf(<<"alice">>)

Init ==
    /\ InitState
    /\ workers = {"w1"}
    /\ call = NoCall
    /\ env = [faults |-> 0, crashes |-> 0, malformed |-> MaxMalformed,
              failures |-> Unlimited, overlaps |-> 0, posts |-> AllPosts, stalls |-> 0]

InitCrash ==
    /\ InitState
    /\ workers = {"w1"}
    /\ call = NoCall
    /\ env = [faults |-> 0, crashes |-> MaxCrashes, malformed |-> 0,
              failures |-> MaxFailures, overlaps |-> 0, posts |-> AllPosts, stalls |-> 0]

InitStoreFaults ==
    /\ InitState
    /\ workers = {"w1"}
    /\ call = NoCall
    /\ env = [faults |-> MaxFaults, crashes |-> 0, malformed |-> 0,
              failures |-> MaxFailures, overlaps |-> 0, posts |-> AllPosts, stalls |-> 0]

Next ==
    \/ \E w \in WorkerIds, u \in Usernames : checkUser(w, u)
    \/ \E w \in WorkerIds, u \in Usernames : retryFailedTweets(w, u)
    \/ \E w \in WorkerIds : fetchInitialTweets(w)
    \/ \E w \in WorkerIds : fetchUserMedia(w)
    \/ \E w \in WorkerIds : checkUserLoop(w)
    \/ \E w \in WorkerIds : checkUserMark(w)
    \/ \E w \in WorkerIds : checkUserDownload(w)
    \/ \E w \in WorkerIds : checkUserSaveCursor(w)
    \/ \E w \in WorkerIds : checkUserSummary(w)
    \/ \E w \in WorkerIds : retryList(w)
    \/ \E w \in WorkerIds : retryItem(w)
    \/ \E w \in WorkerIds : retryDownload(w)
    \/ \E w \in WorkerIds : Return(w)
    \/ \E u \in Usernames, kind \in Kinds : NewTweet(u, kind)

NextCrash == Next \/ Crash

\* two passes may be in progress at once: the periodic tick (cron does not
\* wait for the previous tick) and the admin requests, which call checkUser
\* and retryFailedTweets without waiting for the tick
InitConcurrent ==
    /\ InitState
    /\ workers = WorkerIds
    /\ call = NoCall
    /\ env = [faults |-> 0, crashes |-> 0, malformed |-> 0,
              failures |-> MaxFailures, overlaps |-> MaxOverlaps,
              posts |-> MaxPosts, stalls |-> 0]

NextConcurrent == Next \/ \E u \in Usernames : PostDuringPass(u)

\* the remote listing may answer with empty pages that carry a token
InitListing ==
    /\ InitState
    /\ workers = {"w1"}
    /\ call = NoCall
    /\ env = [faults |-> 0, crashes |-> 0, malformed |-> 0,
              failures |-> MaxFailures, overlaps |-> 0, posts |-> AllPosts,
              stalls |-> MaxStalls]

\* the registry changes while the service runs
InitRegistry ==
    /\ InitState
    /\ workers = {"w1"}
    /\ call = NoCall
    /\ env = [faults |-> 0, crashes |-> 0, malformed |-> 0,
              failures |-> MaxFailures, overlaps |-> 0, posts |-> MaxPosts, stalls |-> 0]

NextRegistry ==
    \/ Next
    \/ checkAllUsers
    \/ \E w \in WorkerIds, u \in Usernames : addUserHandler(w, u)
    \/ \E u \in Usernames : deleteUserHandler(u)
    \/ \E list \in Registries : saveUsers(list)

\* the periodic checks alone: every cron tick calls checkUser for the accounts
\* of the list, and no admin request is issued
Tick == \E w \in WorkerIds, u \in Usernames : checkUser(w, u)

\* the steps of a pass that has started, up to the settling of its promise
PassStep ==
    \/ \E w \in WorkerIds : fetchInitialTweets(w)
    \/ \E w \in WorkerIds : fetchUserMedia(w)
    \/ \E w \in WorkerIds : checkUserLoop(w)
    \/ \E w \in WorkerIds : checkUserMark(w)
    \/ \E w \in WorkerIds : checkUserDownload(w)
    \/ \E w \in WorkerIds : checkUserSaveCursor(w)
    \/ \E w \in WorkerIds : checkUserSummary(w)
    \/ \E w \in WorkerIds : retryList(w)
    \/ \E w \in WorkerIds : retryItem(w)
    \/ \E w \in WorkerIds : retryDownload(w)
    \/ \E w \in WorkerIds : Return(w)

\* a listing that succeeds and returns full pages: the errors of the API are
\* transient
Listed ==
    \E w \in WorkerIds :
        \/ /\ fetchUserMedia(w)
           /\ pass'[w].listed
           /\ pass'[w].tweets = Page(pass[w].username, 0, PageSize)
        \/ /\ fetchInitialTweets(w)
           /\ pass'[w].listed
           /\ pass'[w].tweets = Page(pass[w].username, 0, maxInitialTweets)

InitTicks ==
    /\ InitState
    /\ workers = {"w1"}
    /\ call = NoCall
    /\ env = [faults |-> 0, crashes |-> 0, malformed |-> 0,
              failures |-> MaxFailures, overlaps |-> 0, posts |-> AllPosts, stalls |-> 0]

NextTicks ==
    \/ Tick
    \/ PassStep
    \/ \E u \in Usernames, kind \in Kinds : NewTweet(u, kind)

(***************************************************************************)
(* Direct calls of single operations, on inputs drawn from bounded sets.   *)
(***************************************************************************)
\* the variants a payload may list for one video: the content type, the
\* bitrate (0 also stands for a missing bitrate, read as `bitrate || 0`) and
\* the URL ("" stands for a missing URL); the URL names the position
ContentTypes == {"video/mp4", "application/x-mpegURL"}
Bitrates == {0, 500, 1000, 1500}
VariantShapes == [content_type : ContentTypes, bitrate : Bitrates, hasUrl : BOOLEAN]
Variants(f) ==
    [i \in DOMAIN f |-> [content_type |-> f[i].content_type,
                         bitrate |-> f[i].bitrate,
                         url |-> IF f[i].hasUrl THEN ToString(i) ELSE ""]]
Qualities == {"highest", "lowest"}

\* Downloader.selectVideoUrl called on the variants drawn
selectVideoUrlCall ==
    /\ call.fn = "selectVideoUrl"
    /\ ~call.done
    /\ call' = [call EXCEPT !.done = TRUE,
                            !.result = selectVideoUrl(call.variants,
                                                      call.videoQuality)]
    /\ UNCHANGED <<remote, users, tweets, sink, storageMode, pass, workers,
                   targetUsers, usersFile, tick, env, lastRun>>
    /\ netLog' = {}
    /\ writeLog' = {}

InitSelect ==
    /\ InitState
    /\ workers = {"w1"}
    /\ env = [faults |-> 0, crashes |-> 0, malformed |-> 0,
              failures |-> 0, overlaps |-> 0, posts |-> 0, stalls |-> 0]
    /\ \E n \in 0..MaxVariants :
         \E f \in [1..n -> VariantShapes], q \in Qualities :
             call = [fn |-> "selectVideoUrl", variants |-> Variants(f),
                     videoQuality |-> q, done |-> FALSE, result |-> ""]

NextSelect == selectVideoUrlCall

\* the values of the status column
Statuses == {"pending", "downloading", "completed", "failed"}

\* DatabaseManager.updateTweetStatus called with any key of a monitored
\* account and any status; call keeps, per key, the status of the latest
\* call and the status of the call before it
updateTweetStatusCall(u, tweetId, status) ==
    /\ call.fn = "updateTweetStatus"
    /\ u \in Range(targetUsers)
    /\ tweets' = updateTweetStatus(u, tweetId, status,
                                   IF status = "failed" THEN "error" ELSE "")
    /\ call' = [call EXCEPT !.latest[<<u, tweetId>>] = status,
                            !.previous[<<u, tweetId>>] = call.latest[<<u, tweetId>>]]
    /\ UNCHANGED <<remote, users, sink, storageMode, pass, workers,
                   targetUsers, usersFile, tick, env, lastRun>>
    /\ netLog' = {}
    /\ writeLog' = {}

InitStore ==
    /\ InitState
    /\ workers = {"w1"}
    /\ env = [faults |-> 0, crashes |-> 0, malformed |-> 0,
              failures |-> 0, overlaps |-> 0, posts |-> 0, stalls |-> 0]
    /\ call = [fn |-> "updateTweetStatus",
               latest |-> [k \in Usernames \X TweetIds |-> "none"],
               previous |-> [k \in Usernames \X TweetIds |-> "none"]]

NextStore ==
    \E u \in Usernames, tweetId \in TweetIds, status \in Statuses :
        updateTweetStatusCall(u, tweetId, status)

\* the keys on which the two adapters are called side by side
AdapterPaths == {<<"alice", d, IdString(FirstId)>> : d \in Dirs}

\* what the HTTP GET of a downloadFile call may do
NetOutcomes == {"ok", "error", "cut"}

\* the same pathExists call on the local adapter and on the S3 adapter;
\* call.local and call.s3 are the two backends, call.last the latest call
\* with the answer (pathExists) or the skip decision (downloadFile) of each
pathExistsCall(filePath) ==
    /\ call.fn = "storage"
    /\ call' = [call EXCEPT !.last = [op |-> "pathExists", filePath |-> filePath,
                                      local |-> pathExists(call.local, filePath),
                                      s3 |-> pathExists(call.s3, filePath)]]
    /\ UNCHANGED <<remote, users, tweets, sink, storageMode, pass, workers,
                   targetUsers, usersFile, tick, env, lastRun>>
    /\ netLog' = {}
    /\ writeLog' = {}

\* the same writeFile / writeJson call on both adapters
writeFileCall(filePath, data) ==
    /\ call.fn = "storage"
    /\ call' = [call EXCEPT !.local = LocalWriteFile(call.local, filePath, data),
                            !.s3 = S3WriteFile(call.s3, filePath, data),
                            !.last = [op |-> "writeFile", filePath |-> filePath,
                                      local |-> TRUE, s3 |-> TRUE]]
    /\ UNCHANGED <<remote, users, tweets, sink, storageMode, pass, workers,
                   targetUsers, usersFile, tick, env, lastRun>>
    /\ netLog' = {}
    /\ writeLog' = {}

\* the same downloadFile call on both adapters, the HTTP GET doing the same
\* for both; call.last keeps whether each adapter skipped the download
downloadFileCall(url, filePath, net) ==
    LET l == LocalDownloadFile(call.local, url, filePath, net)
        r == S3DownloadFile(call.s3, url, filePath, net)
    IN
    /\ call.fn = "storage"
    /\ call' = [call EXCEPT !.local = l.sink,
                            !.s3 = r.sink,
                            !.last = [op |-> "downloadFile", filePath |-> filePath,
                                      local |-> l.fetched = {},
                                      s3 |-> r.fetched = {}]]
    /\ UNCHANGED <<remote, users, tweets, sink, storageMode, pass, workers,
                   targetUsers, usersFile, tick, env, lastRun>>
    /\ netLog' = {}
    /\ writeLog' = {}

InitAdapters ==
    /\ InitState
    /\ workers = {"w1"}
    /\ env = [faults |-> 0, crashes |-> 0, malformed |-> 0,
              failures |-> 0, overlaps |-> 0, posts |-> 0, stalls |-> 0]
    /\ call = [fn |-> "storage",
               local |-> [p \in Paths |-> "absent"],
               s3 |-> [p \in Paths |-> "absent"],
               last |-> [op |-> "none", filePath |-> <<>>,
                         local |-> FALSE, s3 |-> FALSE]]

NextAdapters ==
    \/ \E filePath \in AdapterPaths : pathExistsCall(filePath)
    \/ \E filePath \in AdapterPaths : writeFileCall(filePath, "json")
    \/ \E filePath \in AdapterPaths, net \in NetOutcomes :
          downloadFileCall("url", filePath, net)

\* a clearUserData whose second DELETE has no WHERE clause
clearUserData_EveryCursor(u) ==
    [tweets |-> {r \in tweets : r.username # u}, users |-> {}]

\* DELETE FROM tweets WHERE username = ?; DELETE FROM users WHERE username = ?
clearUserData(u) ==
    [tweets |-> {r \in tweets : r.username # u},
     users |-> {r \in users : r.username # u}]

\* DatabaseManager.clearUserData called for any account; call keeps the
\* accounts cleared so far and the rows that the latest call found
clearUserDataCall(u) ==
    /\ call.fn = "clearUserData"
    /\ tweets' = clearUserData(u).tweets
    /\ users' = clearUserData(u).users
    /\ call' = [call EXCEPT !.cleared = call.cleared \cup {u},
                            !.found = {r.tweet_id : r \in {x \in tweets : x.username = u}},
                            !.cursor = getLastTweetId(u)]
    /\ UNCHANGED <<remote, sink, storageMode, pass, workers,
                   targetUsers, usersFile, tick, env, lastRun>>
    /\ netLog' = {}
    /\ writeLog' = {}

\* the rows of a Status Store in which the items have the statuses of f and
\* the accounts the cursors of c
TweetRows(f) ==
    {[username |-> k[1], tweet_id |-> k[2], status |-> f[k],
      error_message |-> IF f[k] = "failed" THEN "error" ELSE ""] :
         k \in {x \in DOMAIN f : f[x] # "none"}}
UserRows(c) ==
    {[username |-> u, last_tweet_id |-> c[u]] : u \in {x \in DOMAIN c : c[x] # NULL}}

\* clearUserData is called on any Status Store of two accounts
InitClear ==
    /\ remote = [u \in Usernames |-> <<>>]
    /\ \E f \in [Usernames \X TweetIds -> {"none", "completed", "failed"}] :
           tweets = TweetRows(f)
    /\ \E c \in [Usernames -> TweetIds \cup {NULL}] : users = UserRows(c)
    /\ sink = [p \in Paths |-> "absent"]
    /\ storageMode = "local"
    /\ pass = [w \in WorkerIds |-> Idle]
    /\ workers = {"w1"}
    /\ targetUsers = <<"alice", "bob">>
    /\ usersFile = <<"alice", "bob">>
    /\ tick = NoTick
    /\ call = [fn |-> "clearUserData", cleared |-> {}, found |-> {}, cursor |-> NULL]
    /\ env = [faults |-> 0, crashes |-> 0, malformed |-> 0,
              failures |-> 0, overlaps |-> 0, posts |-> 0, stalls |-> 0]
    /\ netLog = {}
    /\ writeLog = {}
    /\ lastRun = [u \in Usernames |-> "none"]

NextClear == \E u \in Usernames : clearUserDataCall(u)

\* the ticks over a list of two accounts
InitTickLoop ==
    /\ InitStateOf(<<"alice", "bob">>)
    /\ workers = {"w1"}
    /\ call = NoCall
    /\ env = [faults |-> 0, crashes |-> 0, malformed |-> 0,
              failures |-> MaxFailures, overlaps |-> 0, posts |-> MaxPosts, stalls |-> 0]

NextTickLoop ==
    \/ checkAllUsersStart
    \/ \E w \in WorkerIds : checkAllUsersNext(w)
    \/ checkAllUsersEnd
    \/ PassStep
    \/ \E u \in Usernames, kind \in Kinds : NewTweet(u, kind)

Spec == Init /\ [][Next]_vars

SpecCrash == InitCrash /\ [][NextCrash]_vars

SpecStoreFaults == InitStoreFaults /\ [][Next]_vars

SpecConcurrent == InitConcurrent /\ [][NextConcurrent]_vars

SpecListing == InitListing /\ [][Next]_vars

SpecAdapters == InitAdapters /\ [][NextAdapters]_vars

SpecClear == InitClear /\ [][NextClear]_vars

SpecRegistry == InitRegistry /\ [][NextRegistry]_vars

SpecTickLoop == InitTickLoop /\ [][NextTickLoop]_vars

SpecSelect == InitSelect /\ [][NextSelect]_vars

SpecStore == InitStore /\ [][NextStore]_vars

\* the cron job keeps firing its ticks, a pass that has started runs on
\* until its promise settles, and the listing does not fail for ever
SpecTicks ==
    /\ InitTicks /\ [][NextTicks]_vars
    /\ WF_vars(Tick) /\ WF_vars(PassStep) /\ SF_vars(Listed)

(***************************************************************************)
(* Properties.                                                             *)
(***************************************************************************)
\* a checkUser invocation of worker w is over
CheckUserDone(w) == pass[w].pc = "done" /\ pass[w].op = "checkUser"

\* C1: when a checkUser invocation whose listing calls succeeded returns,
\* every item of the account that was 'downloading' when it started (left so
\* by a stop of the process) and that its listing returned has been attempted
\* again by it: it was written 'downloading' and its download was run
C1_ReattemptAfterCrash ==
    \A w \in WorkerIds :
        (CheckUserDone(w) /\ pass[w].outcome = "returned" /\ pass[w].listed)
            => (pass[w].orphans \cap Range(pass[w].batch)) \subseteq pass[w].attempted

\* the keys of the tweets table
ItemKeys == Usernames \X TweetIds

StatusReadFailed(k) ==
    \E w \in WorkerIds :
        /\ pass[w].pc \in {"mark", "download"}
        /\ pass[w].readFault
        /\ pass[w].username = k[1]
        /\ pass[w].current = k[2]

C3_CursorMonotone ==
    [][\A u \in Usernames :
          getLastTweetId(u) # NULL
              => ~Newer(getLastTweetId(u), getLastTweetId(u)')]_vars

\* the item passes the filter the batch loop of invocation p applies
Admitted(p, id) == p.isNewUser \/ ~StrLessEq(id, p.lastTweetId)

WithStatus(u, sts) == {id \in TweetIds : getTweetStatus(u, id) \in sts}

\* C6: when a checkUser invocation on an account that had no cursor and no
\* item row is over, its listing calls having returned at least
\* maxInitialTweets items, exactly maxInitialTweets items are 'completed' or
\* 'failed' and no item beyond the newest maxInitialTweets has a status
C6_BootstrapCap ==
    \A w \in WorkerIds :
        LET p == pass[w]
            u == p.username
        IN  (CheckUserDone(w) /\ p.isNewUser /\ p.fresh /\ p.listed
               /\ Len(Timeline(u)) >= maxInitialTweets)
              => /\ Cardinality(WithStatus(u, {"completed", "failed"})) = maxInitialTweets
                 /\ WithStatus(u, {"completed", "failed", "downloading", "pending"})
                       \subseteq Range(Slice(Timeline(u), maxInitialTweets))

\* C7: after a downloadTweet in which the download of a photo or video
\* failed (the file was requested and is not stored), the item is 'failed'
\* with an error message
C7_MediaFailureFailsItem ==
    \A f \in netLog :
        sink[f] = "absent"
            => /\ getTweetStatus(f[1], f[3]) = "failed"
               /\ getErrorMessage(f[1], f[3]) # ""

\* C8: when a checkUser invocation is over, every admitted item of its batch
\* whose payload lacks its text has been marked 'failed' (the retry pass may
\* have completed it since) and the invocation has returned
C8_MalformedItemIsolated ==
    \A w \in WorkerIds :
        LET p == pass[w]
            u == p.username
        IN  (CheckUserDone(w) /\ p.listed)
              => \A id \in Range(p.batch) :
                    (Admitted(p, id) /\ ~Payload(id, KindOf(u, id)).hasText)
                        => /\ getTweetStatus(u, id) \in {"failed", "completed"}
                           /\ p.outcome = "returned"

BinaryPaths == {f \in Paths : f[2] \in {"photos", "videos"}}

\* C10: no step fetches or changes a photo or video whose path exists
C10_ExistingBinaryUntouched ==
    [][\A f \in BinaryPaths :
          pathExists(sink, f) => (sink'[f] = sink[f] /\ f \notin netLog')]_vars

\* C10 witness: the download of a tweet that carries a photo or a video (with
\* an mp4 variant) has just run with the file already stored, and fetched
\* nothing; the backend is the object storage
C10_Witness ==
    \E w \in WorkerIds :
        LET p == pass[w]
            u == p.username
        IN  /\ p.pc = "saveCursor"
            /\ storageMode = "s3"
            /\ KindOf(u, p.current) \in {"photo", "video"}
            /\ netLog = {}
            /\ \E f \in BinaryPaths :
                  f[1] = u /\ f[3] = p.current /\ pathExists(sink, f)

\* C10 witness for the local backend: the stored file is a partial one
C10_WitnessLocal ==
    \E w \in WorkerIds :
        LET p == pass[w]
            u == p.username
        IN  /\ p.pc = "saveCursor"
            /\ storageMode = "local"
            /\ netLog = {}
            /\ \E f \in BinaryPaths :
                  f[1] = u /\ f[3] = p.current /\ sink[f] = "partial"

\* the paths of the text records
TextPaths == {f \in Paths : f[2] = "text"}

\* C11: no step writes the text record of an item whose path exists
C11_ExistingTextNotRewritten ==
    [][\A f \in TextPaths : pathExists(sink, f) => f \notin writeLog']_vars

\* C12: a photo or video of a 'completed' item is never a partially written
\* file
C12_CompletedObjectIsWhole ==
    \A f \in BinaryPaths :
        getTweetStatus(f[1], f[3]) = "completed" => sink[f] # "partial"

\* a pass of worker w is in progress
InProgress(w) == pass[w].pc \notin {"idle", "done"}

\* C13: no two passes over the same account are in progress at the same time
C13_OnePassPerAccount ==
    \A w \in WorkerIds, v \in WorkerIds :
        (w # v /\ InProgress(w) /\ InProgress(v))
            => pass[w].username # pass[v].username

\* C14: with passes interleaving, no step writes 'downloading' or 'failed'
\* for an item that is 'completed'
C14_CompletedIsFinalWhenInterleaved ==
    [][\A k \in ItemKeys :
          getTweetStatus(k[1], k[2]) = "completed"
              => getTweetStatus(k[1], k[2])' \notin {"downloading", "failed"}]_vars

\* two checkUser passes over account u have started and not yet settled
TwoChecks(u) ==
    \A w \in WorkerIds :
        pass[w].op = "checkUser" /\ pass[w].username = u /\ pass[w].pc # "idle"

\* C15: while two checkUser passes over an account interleave, no step
\* replaces the saved cursor by the id of an older item
C15_CursorMonotoneWhenInterleaved ==
    [][\A u \in Usernames :
          (TwoChecks(u) /\ getLastTweetId(u) # NULL)
              => ToNumber(getLastTweetId(u)') >= ToNumber(getLastTweetId(u))]_vars

\* C16: the accounts a tick processes are the list committed in the registry
\* file when the tick starts, the empty list included
C16_TickReadsCommittedList ==
    [][checkAllUsers => targetUsers' = usersFile]_vars

\* C17: after the admin delete operation removed an account, the Status Store
\* holds no cursor and no item row for it
C17_RemovalClearsStore ==
    [][\A u \in Usernames :
          deleteUserHandler(u)
              => /\ getLastTweetId(u)' = NULL
                 /\ \A r \in tweets' : r.username # u]_vars

C20_GracefulStopSettlesItem ==
    [][Crash => \A k \in ItemKeys :
                   getTweetStatus(k[1], k[2])' # "downloading"]_vars

\* C18: with the periodic checks alone, an item in status 'failed' is
\* eventually re-attempted (an attempt starts by writing 'downloading')
C18_FailedEventuallyRetried ==
    \A k \in ItemKeys :
        (getTweetStatus(k[1], k[2]) = "failed")
            ~> (getTweetStatus(k[1], k[2]) # "failed")

\* the loop of the checkAllUsers call in progress is over
TickOver == tick.active /\ tick.running = "" /\ tick.queue = <<>>

\* C21: every account of the list is processed by the tick, whatever happened
\* to the accounts before it: during the loop each account of the list has
\* been processed, is being processed or is still to come, and when the loop
\* is over checkUser has been called and has settled for every account
C21_TickProcessesEveryAccount ==
    /\ tick.active
          => Range(tick.list) = tick.visited \cup Range(tick.queue)
                                   \cup (IF tick.running = "" THEN {}
                                         ELSE {tick.running})
    /\ TickOver => tick.visited = Range(tick.list)

\* C21 witness: a tick is over in which checkUser threw for the first account
\* of the list and was then called for the second one, which it processed
C21_Witness ==
    /\ TickOver
    /\ tick.list = <<"alice", "bob">>
    /\ "alice" \in tick.threw
    /\ "bob" \in tick.visited \ tick.threw
    /\ \E r \in tweets : r.username = "bob" /\ r.status = "completed"

\* the positions of the variants that selectVideoUrl considers
Eligible(variants) ==
    {i \in 1..Len(variants) :
        variants[i].content_type = "video/mp4" /\ variants[i].url # ""}

\* C22: selectVideoUrl returns null when no variant is of type video/mp4 with
\* a URL, and else the URL of such a variant whose bitrate is the maximum
\* under 'highest' and the minimum under 'lowest'; for three such variants of
\* bitrates 500, 1000, 1500 it returns the third and the first one
C22_SelectVideoUrl ==
    (call.fn = "selectVideoUrl" /\ call.done)
        => LET variants == call.variants
               E == Eligible(variants)
           IN  /\ E = {} => call.result = ""
               /\ E # {} =>
                     \E i \in E :
                        /\ call.result = variants[i].url
                        /\ \A j \in E :
                              IF call.videoQuality = "highest"
                              THEN variants[i].bitrate >= variants[j].bitrate
                              ELSE variants[i].bitrate <= variants[j].bitrate
               /\ (E = 1..3 /\ [i \in 1..3 |-> variants[i].bitrate]
                                   = <<500, 1000, 1500>>)
                     => call.result = IF call.videoQuality = "highest"
                                      THEN variants[3].url ELSE variants[1].url

\* C22 witness: selectVideoUrl returned the URL of the mp4 variant of bitrate
\* 1000 although a variant of another type carries the bitrate 1500
C22_Witness ==
    /\ call.fn = "selectVideoUrl"
    /\ call.done
    /\ call.videoQuality = "highest"
    /\ Len(call.variants) = 3
    /\ call.variants[1].content_type = "application/x-mpegURL"
    /\ call.variants[1].bitrate = 1500
    /\ call.variants[1].url # ""
    /\ Eligible(call.variants) = {2, 3}
    /\ call.variants[2].bitrate = 500
    /\ call.variants[3].bitrate = 1000
    /\ call.result = call.variants[3].url

\* an attempt of worker w on an item whose video has no mp4 variant ends
NoMp4AttemptEnds(w) ==
    /\ pass[w].pc \in {"download", "retryDownload"}
    /\ pass'[w].pc # pass[w].pc
    /\ KindOf(pass[w].username, pass[w].current) = "nomp4"

\* a call of the Status Store failed in the step
StoreFaulted == env'.faults # env.faults

\* C23: when the attempt on an item whose video has no mp4 variant ends, no
\* video was requested or stored for it, and, the text of the item having
\* been written, the text is stored and the item is 'completed' (its status
\* is written 'completed', the write to the Status Store succeeding)
C23_NoMp4VideoSkipped ==
    [][\A w \in WorkerIds :
          NoMp4AttemptEnds(w)
              => \A u \in {pass[w].username}, id \in {pass[w].current} :
                     /\ <<u, "videos", id>> \notin netLog'
                     /\ sink'[<<u, "videos", id>>] = sink[<<u, "videos", id>>]
                     /\ <<u, "text", id>> \in writeLog'
                           => /\ pathExists(sink', <<u, "text", id>>)
                              /\ StoreFaulted
                                   \/ getTweetStatus(u, id)' = "completed"]_vars

\* C23 witness: an item whose video has no mp4 variant is 'completed', its
\* text is stored and no video is stored for it
C23_Witness ==
    \E u \in Usernames, id \in TweetIds :
        /\ ToNumber(id) - FirstId + 1 <= Len(remote[u])
        /\ KindOf(u, id) = "nomp4"
        /\ getTweetStatus(u, id) = "completed"
        /\ <<u, "text", id>> \in writeLog
        /\ pathExists(sink, <<u, "text", id>>)
        /\ ~pathExists(sink, <<u, "videos", id>>)

\* worker w is in the batch loop of a checkUser invocation
InBatchLoop(w) ==
    /\ pass[w].op = "checkUser"
    /\ pass[w].pc \in {"loop", "mark", "download", "saveCursor"}

\* C24 (as claimed): no step of the batch loop of checkUser changes the
\* status of an item that is 'failed'
C24_BatchLeavesFailedAlone ==
    [][\A w \in WorkerIds : \A u \in {pass[w].username}, id \in TweetIds :
          (InBatchLoop(w) /\ getTweetStatus(u, id) = "failed")
              => getTweetStatus(u, id)' = "failed"]_vars

\* C24 (amended): a step that changes the status of a 'failed' item is a
\* status write of an attempt on that item, either by the batch loop of
\* checkUser, for an item of its batch that passes its filter, or by the
\* retry pass, for the item it re-attempts; the write that starts the attempt
\* is the write of 'downloading'
C24_FailedLeftOnlyByReattempt ==
    [][\A k \in ItemKeys :
          (getTweetStatus(k[1], k[2]) = "failed"
             /\ getTweetStatus(k[1], k[2])' # "failed")
              => \E w \in WorkerIds :
                    /\ pass[w].username = k[1]
                    /\ \/ /\ InBatchLoop(w)
                          /\ pass[w].pc \in {"mark", "download"}
                          /\ pass[w].current = k[2]
                          /\ k[2] \in Range(pass[w].batch)
                          /\ Admitted(pass[w], k[2])
                       \/ /\ pass[w].pc = "retryItem"
                          /\ pass[w].failedTweetIds # <<>>
                          /\ Head(pass[w].failedTweetIds) = k[2]
                       \/ /\ pass[w].pc = "retryDownload"
                          /\ pass[w].current = k[2]
                    /\ pass[w].pc \in {"mark", "retryItem"}
                          => getTweetStatus(k[1], k[2])' = "downloading"]_vars

\* C24 witness: the batch loop of a checkUser invocation on the delta path
\* has written 'downloading' for an item that was 'failed'
C24_Witness ==
    \E w \in WorkerIds :
        /\ InBatchLoop(w)
        /\ pass[w].pc = "download"
        /\ ~pass[w].isNewUser
        /\ pass[w].was = "failed"
        /\ getTweetStatus(pass[w].username, pass[w].current) = "downloading"

\* the rows of the tweets table for key k
Rows(k) == {r \in tweets : r.username = k[1] /\ r.tweet_id = k[2]}

\* C25: after any sequence of updateTweetStatus calls the table holds no row
\* for a key that no call named, and exactly one row for a key that a call
\* named, with the status of the latest call for that key
C25_OneRowPerKeyLatestStatus ==
    call.fn = "updateTweetStatus"
        => \A k \in ItemKeys :
              IF call.latest[k] = "none" THEN Rows(k) = {}
              ELSE /\ Cardinality(Rows(k)) = 1
                   /\ \A r \in Rows(k) : r.status = call.latest[k]

\* C25 witness: updateTweetStatus was called twice for a key, with
\* 'downloading' and then with 'completed', and the key has one row, which is
\* 'completed'
C25_Witness ==
    /\ call.fn = "updateTweetStatus"
    /\ \E k \in ItemKeys :
          /\ call.previous[k] = "downloading"
          /\ call.latest[k] = "completed"
          /\ Cardinality(Rows(k)) = 1
          /\ \A r \in Rows(k) : r.status = "completed"

\* C26: the batch loop of an invocation on the delta path writes a status
\* only for items that are newer than the cursor it read, in the numeric
\* ordering of the ids, and, when the invocation has returned, every item of
\* its listing that is newer than that cursor has been processed
C26_FilterIsNumeric ==
    \A w \in WorkerIds :
        LET p == pass[w]
            u == p.username
        IN  (p.op = "checkUser" /\ ~p.isNewUser)
              => /\ \A id \in Range(p.candidates) : Newer(id, p.lastTweetId)
                 /\ (CheckUserDone(w) /\ p.outcome = "returned")
                       => \A id \in Range(p.batch) :
                             Newer(id, p.lastTweetId)
                                => getTweetStatus(u, id) # "none"

\* C27: at the end of a checkUser invocation the retry pass starts if and
\* only if the attempt of the batch loop on an item of the batch failed; the
\* pass lists every item of the account that is 'failed' (the read of the
\* list succeeding), and ends only when it has gone through the whole list,
\* one item at a time
C27_RetryIffBatchFailure ==
    [][\A w \in WorkerIds :
          LET p == pass[w]
              q == pass'[w]
              u == p.username
          IN  (p.op = "checkUser" /\ q # p /\ q.pc # "idle") =>
                /\ p.pc = "summary"
                      => /\ q.pc \in {"retryList", "done"}
                         /\ q.pc = "retryList" <=> p.thrown # {}
                /\ (p.pc = "retryList" /\ ~StoreFaulted)
                      => /\ q.pc = "retryItem"
                         /\ Range(q.failedTweetIds) = WithStatus(u, {"failed"})
                         /\ Len(q.failedTweetIds) = Cardinality(WithStatus(u, {"failed"}))
                /\ (p.pc \in {"retryItem", "retryDownload"}
                       /\ p.failedTweetIds # <<>>)
                      => /\ q.pc \in {"retryItem", "retryDownload"}
                         /\ q.failedTweetIds \in {p.failedTweetIds,
                                                   Tail(p.failedTweetIds)}]_vars

\* C27 witness: a checkUser invocation returned whose retry pass started
\* after an item of its batch failed and re-attempted an item that the batch
\* loop of the invocation had not attempted
C27_Witness ==
    \E w \in WorkerIds :
        /\ CheckUserDone(w)
        /\ pass[w].outcome = "returned"
        /\ pass[w].thrown # {}
        /\ \A id \in pass[w].thrown :
              getTweetStatus(pass[w].username, id) = "failed"
        /\ pass[w].attempted \ Range(pass[w].candidates) # {}

\* worker w is in a retry pass
InRetryPass(w) == pass[w].pc \in {"retryList", "retryItem", "retryDownload"}

\* C28: no step of a retry pass changes the users table: the cursor of the
\* account is the same before and after the pass
C28_RetryKeepsCursor ==
    [][\A w \in WorkerIds :
          (InRetryPass(w) /\ pass'[w] # pass[w]) => users' = users]_vars

\* C28 witness: a retry pass is over that downloaded with success an item
\* newer than the cursor of the account, or an item of an account without
\* cursor, and the cursor is the one the account had
C28_Witness ==
    \E w \in WorkerIds :
        LET p == pass[w]
            u == p.username
        IN  /\ p.pc = "done"
            /\ p.op = "retryFailedTweets"
            /\ \E id \in p.attempted :
                  /\ getTweetStatus(u, id) = "completed"
                  /\ getLastTweetId(u) # id
                  /\ getLastTweetId(u) = NULL \/ Newer(id, getLastTweetId(u))

\* C29: a retry pass lists items whose status is 'failed' and a step of the
\* pass writes a status for no other item: the row of every key but the item in hand is left as it
\* is; when the detail fetch returns no data the table is unchanged, so the
\* item keeps the status 'failed' it was listed with; when the detail fetch or the download throws, the
\* item is written 'failed'
C29_RetryWritesOnlyListedFailed ==
    [][\A w \in WorkerIds : \A u \in {pass[w].username} :
          LET p == pass[w]
              q == pass'[w]
          IN  (InRetryPass(w) /\ q # p /\ q.pc # "idle") =>
                /\ p.pc = "retryList" =>
                     /\ tweets' = tweets
                     /\ q.pc = "retryItem" =>
                          \A i \in 1..Len(q.failedTweetIds) :
                              getTweetStatus(u, q.failedTweetIds[i]) = "failed"
                /\ (p.pc = "retryItem" /\ p.failedTweetIds = <<>>) => tweets' = tweets
                /\ (p.pc = "retryItem" /\ p.failedTweetIds # <<>>) =>
                     \A tweetId \in {Head(p.failedTweetIds)} :
                         /\ \A k \in ItemKeys : k # <<u, tweetId>> => Rows(k)' = Rows(k)
                         /\ q.detail = "nodata" => tweets' = tweets
                         /\ (q.detail = "error" /\ ~StoreFaulted) =>
                              getTweetStatus(u, tweetId)' = "failed"
                         /\ q.failedTweetIds = IF q.pc = "retryDownload"
                                               THEN p.failedTweetIds
                                               ELSE Tail(p.failedTweetIds)
                /\ p.pc = "retryDownload" =>
                     \A tweetId \in {p.current} :
                         /\ tweetId = Head(p.failedTweetIds)
                         /\ \A k \in ItemKeys : k # <<u, tweetId>> => Rows(k)' = Rows(k)
                         /\ (writeLog' = {} /\ ~StoreFaulted) =>
                              getTweetStatus(u, tweetId)' = "failed"]_vars

\* C29 witness: a retry pass is over that wrote 'failed' again for an item
\* whose detail fetch threw, then met an item without detail data and wrote
\* nothing for it; both are 'failed', and an item of the account that was
\* not listed is still 'completed'
C29_Witness ==
    \E w \in WorkerIds :
        LET p == pass[w]
        IN  /\ p.pc = "retryItem"
            /\ p.failedTweetIds = <<>>
            /\ p.detail = "nodata"
            /\ p.wrote
            /\ p.attempted = {}
            /\ Cardinality(WithStatus(p.username, {"failed"})) = 2
            /\ WithStatus(p.username, {"completed"}) # {}

\* the step is a step of worker w's invocation that writes 'completed' or
\* 'failed' for item id at the end of an attempt that called downloadTweet
EndsAttempt(w, id) ==
    /\ pass[w].pc \in {"download", "retryDownload"}
    /\ pass'[w] # pass[w]
    /\ pass'[w].pc # "idle"
    /\ pass[w].current = id

\* the step is a step of worker w's retry pass in which the detail fetch for
\* item id threw and the catch wrote 'failed'
DetailThrew(w, id) ==
    /\ pass[w].pc = "retryItem"
    /\ pass[w].failedTweetIds # <<>>
    /\ Head(pass[w].failedTweetIds) = id
    /\ pass'[w] # pass[w]
    /\ pass'[w].detail = "error"

\* no row of the Status Store has status 'pending', and a step that changes the
\* row of an item to 'completed' or 'failed' is one of the two kinds of step
\* above, by an invocation on the account of the item
OnlyAttemptsSettle ==
    /\ \A r \in tweets' : r.status # "pending"
    /\ \A k \in ItemKeys :
          (Rows(k)' # Rows(k) /\ getTweetStatus(k[1], k[2])' \in {"completed", "failed"})
              => \E w \in WorkerIds :
                    /\ pass[w].username = k[1]
                    /\ EndsAttempt(w, k[2]) \/ DetailThrew(w, k[2])

\* C30 (as claimed): the engine never writes 'pending', and when an invocation
\* writes 'completed' or 'failed' for an item, its latest status write before
\* that one was the write of 'downloading' for that item
C30_DownloadingBeforeEveryEndWrite ==
    [][/\ OnlyAttemptsSettle
       /\ \A w \in WorkerIds, id \in TweetIds :
             (EndsAttempt(w, id) \/ DetailThrew(w, id)) => pass[w].marked = id]_vars

\* C30 (amended): the engine never writes 'pending'; the write of 'completed'
\* or 'failed' that ends an attempt that called downloadTweet follows the
\* write of 'downloading' of that attempt, the invocation writing no status
\* in between; the write of 'failed' for an item of the retry pass whose
\* detail fetch threw follows no write of 'downloading' in that attempt
C30_DownloadingBeforeEndWriteOfDownload ==
    [][/\ OnlyAttemptsSettle
       /\ \A w \in WorkerIds, id \in TweetIds : \A u \in {pass[w].username} :
             /\ EndsAttempt(w, id) => pass[w].marked = id
             /\ DetailThrew(w, id) =>
                  /\ pass[w].marked = NULL
                  /\ StoreFaulted \/ getTweetStatus(u, id)' = "failed"]_vars

\* C30 witness: an invocation wrote 'downloading' and then 'completed' for
\* one item, and its retry pass then wrote 'failed' for an item whose detail
\* fetch threw
C30_Witness ==
    \E w \in WorkerIds :
        LET p == pass[w]
        IN  /\ p.pc = "retryItem"
            /\ p.detail = "error"
            /\ p.marked = NULL
            /\ \E id \in p.attempted : getTweetStatus(p.username, id) = "completed"
            /\ WithStatus(p.username, {"failed"}) # {}

\* worker w runs a checkUser invocation on the delta path
OnDeltaPath(w) == pass[w].op = "checkUser" /\ ~pass[w].isNewUser

\* C31: a checkUser invocation on the delta path has made no listing call
\* before its listing step and exactly one from then on, up to its end, and
\* that call carried no page token; it never runs the loop of the bootstrap
\* retrieval
C31_DeltaListsOnePage ==
    \A w \in WorkerIds :
        OnDeltaPath(w) =>
            /\ pass[w].pc # "fetchInitial"
            /\ pass[w].cursor = 0
            /\ pass[w].calls = IF pass[w].pc = "fetchMedia" THEN 0 ELSE 1

\* C31 witness: a checkUser invocation on the delta path is over; its one
\* listing call returned a page whose items are all newer than the cursor,
\* and the timeline holds more items than the page (the response carried a
\* next-page token)
C31_Witness ==
    \E w \in WorkerIds :
        LET p == pass[w]
        IN  /\ OnDeltaPath(w)
            /\ p.pc = "done"
            /\ p.outcome = "returned"
            /\ p.calls = 1
            /\ p.batch # <<>>
            /\ \A k \in 1..Len(p.batch) : Newer(p.batch[k], p.lastTweetId)
            /\ \A k \in 1..Len(p.batch) : ~StrLessEq(p.batch[k], p.lastTweetId)
            /\ Len(p.batch) < Len(Timeline(p.username))

\* C32: when the listing call of the delta path is answered without a
\* timeline, the invocation is over without having thrown and without a
\* retry pass, that step writes no status, no cursor and no content, and the
\* only step left to the invocation is its return, which writes none either
C32_DeltaNoDataReturns ==
    [][\A w \in WorkerIds :
          LET p == pass[w]
              q == pass'[w]
          IN  /\ (OnDeltaPath(w) /\ p.pc = "fetchMedia" /\ q.response = "nodata") =>
                    /\ q.pc = "done"
                    /\ q.outcome \notin {"threw", "none"}
                    /\ ~q.wrote /\ q.attempted = {} /\ q.batch = <<>>
                    /\ tweets' = tweets /\ users' = users /\ sink' = sink
              /\ (OnDeltaPath(w) /\ p.response = "nodata" /\ q # p) =>
                    /\ q.pc = "idle"
                    /\ tweets' = tweets /\ users' = users /\ sink' = sink]_vars

\* C32 witness: a delta invocation whose listing response lacked a timeline
\* is over; the account has a cursor and an item the listing would have
\* returned as new
C32_Witness ==
    \E w \in WorkerIds :
        LET p == pass[w]
        IN  /\ OnDeltaPath(w)
            /\ p.pc = "done"
            /\ p.response = "nodata"
            /\ p.outcome = "nodata"
            /\ PassFilter(p.username) # {}
            /\ \A id \in PassFilter(p.username) : getTweetStatus(p.username, id) = "none"

\* C33 (as claimed): the bootstrap retrieval terminates whatever the remote
\* listing answers: a listing call after which the loop goes on has added at
\* least one item to the items collected, which the loop bounds by
\* maxInitialTweets; and the loop goes on only after a response that carries
\* a token while fewer than maxInitialTweets items are collected
C33_BootstrapRetrievalTerminates ==
    [][\A w \in WorkerIds :
          LET p == pass[w]
              q == pass'[w]
          IN  (p.pc = "fetchInitial" /\ q.pc = "fetchInitial" /\ q.calls # p.calls) =>
                /\ Len(q.allTweets) > Len(p.allTweets)
                /\ Len(q.allTweets) < maxInitialTweets
                /\ q.response \in {"ok", "stalled"}]_vars

\* the rows of the tweets table and of the users table for account u
TweetRowsOf(u) == {r \in tweets : r.username = u}
UserRowsOf(u) == {r \in users : r.username = u}

\* C34: a clearUserData call for an account leaves no item row and no cursor
\* row of that account, and leaves the item rows and the cursor row of every
\* other account as they were
C34_ClearUserDataFrame ==
    [][\A u \in Usernames :
          clearUserDataCall(u) =>
              /\ TweetRowsOf(u)' = {}
              /\ UserRowsOf(u)' = {}
              /\ getLastTweetId(u)' = NULL
              /\ \A v \in Usernames \ {u} :
                    /\ TweetRowsOf(v)' = TweetRowsOf(v)
                    /\ UserRowsOf(v)' = UserRowsOf(v)]_vars

\* C34 witness: the data of alice, item rows and a cursor, has been cleared
\* and only hers, while bob has item rows and a cursor
C34_Witness ==
    /\ call.fn = "clearUserData"
    /\ call.cleared = {"alice"}
    /\ Cardinality(call.found) >= 2
    /\ call.cursor # NULL
    /\ TweetRowsOf("alice") = {}
    /\ UserRowsOf("alice") = {}
    /\ Cardinality(TweetRowsOf("bob")) >= 2
    /\ getLastTweetId("bob") # NULL

\* C35 (as claimed): after every call made on both adapters, the same keys
\* exist in the local backend and in the S3 backend, and the two adapters gave
\* the same answer (pathExists) or took the same skip decision (downloadFile)
C35_AdaptersAgree ==
    call.fn = "storage" =>
        /\ \A filePath \in Paths :
              pathExists(call.local, filePath) = pathExists(call.s3, filePath)
        /\ call.last.local = call.last.s3

\* the first item of the batch of invocation p that passes its filter (NULL
\* when none does)
FirstAdmitted(p) ==
    IF \E k \in 1..Len(p.batch) : Admitted(p, p.batch[k])
    THEN p.batch[CHOOSE k \in 1..Len(p.batch) :
                    /\ Admitted(p, p.batch[k])
                    /\ \A j \in 1..(k - 1) : ~Admitted(p, p.batch[j])]
    ELSE NULL

\* C36: a step of a checkUser invocation that calls saveLastTweetId or
\* changes the cursor is its first saveLastTweetId call, made with the id of
\* the first item of the batch that passed the filter, which this invocation
\* attempted without a throw; the call comes right after the step in which
\* the download of that item returned and 'completed' was written for it; an
\* invocation that is over and whose first such item was skipped as
\* 'completed' or threw has made no saveLastTweetId call
C36_CursorSavedOnceForFirstItem ==
    [][\A w \in WorkerIds : \A u \in {pass[w].username} :
          LET p == pass[w]
              q == pass'[w]
          IN  (p.op = "checkUser" /\ q # p /\ q.pc # "idle") =>
                /\ (users' # users \/ q.saves # p.saves) =>
                      /\ p.pc = "saveCursor"
                      /\ p.saves = 0 /\ q.saves = 1
                      /\ p.current = FirstAdmitted(p)
                      /\ p.current \in p.attempted \ p.thrown
                      /\ StoreFaulted \/ users' = saveLastTweetId(u, p.current)
                /\ q.pc = "saveCursor" =>
                      /\ p.pc = "download"
                      /\ \A id \in {p.current} :
                            StoreFaulted \/ getTweetStatus(u, id)' = "completed"
                /\ (q.pc = "done" /\ q.outcome = "returned" /\ q.listed
                      /\ FirstAdmitted(q) \notin (q.attempted \ q.thrown)) =>
                      q.saves = 0]_vars

\* C36 witness: a checkUser invocation is over in which the first item that
\* passed the filter threw and a later item was written 'completed'; it made
\* no saveLastTweetId call and the cursor is the one it read
C36_Witness ==
    \E w \in WorkerIds :
        LET p == pass[w]
        IN  /\ CheckUserDone(w)
            /\ p.outcome = "returned"
            /\ FirstAdmitted(p) \in p.thrown
            /\ \E id \in p.attempted \ p.thrown :
                  /\ id # FirstAdmitted(p)
                  /\ id \in Range(p.candidates)
                  /\ getTweetStatus(p.username, id) = "completed"
            /\ p.saves = 0
            /\ getLastTweetId(p.username) = p.lastTweetId

\* C37: at the step that ends a checkUser or retryFailedTweets invocation,
\* every item whose status the invocation wrote (those for which it wrote
\* 'downloading' and those whose attempt threw) is 'completed' or 'failed'
C37_NoItemLeftDownloading ==
    [][\A w \in WorkerIds :
          (pass[w].pc # "done" /\ pass'[w].pc = "done") =>
              \A u \in {pass'[w].username} :
                  \A id \in pass'[w].attempted \cup pass'[w].thrown :
                      getTweetStatus(u, id)' \in {"completed", "failed"}]_vars

\* C38: once a listing call of the bootstrap retrieval has failed, the
\* checkUser invocation has an empty batch, whatever pages were fetched
\* before; it examines no item, writes no status, no cursor and no content,
\* never enters the retry pass, and ends by returning
C38_BootstrapListingErrorDoesNothing ==
    \A w \in WorkerIds :
        LET p == pass[w]
        IN  (p.op = "checkUser" /\ p.isNewUser /\ p.response = "error") =>
              /\ p.pc \in {"loop", "summary", "done"}
              /\ p.tweets = <<>>
              /\ p.processedTweets = 0
              /\ p.attempted = {}
              /\ p.thrown = {}
              /\ ~p.wrote
              /\ p.saves = 0
              /\ p.pc = "done" => p.outcome = "returned"

\* C38 witness: a bootstrap checkUser is over whose second listing call
\* failed after a first page with an item had been fetched
C38_Witness ==
    \E w \in WorkerIds :
        LET p == pass[w]
        IN  /\ p.op = "checkUser"
            /\ p.isNewUser
            /\ p.response = "error"
            /\ p.calls >= 2
            /\ Len(p.allTweets) >= 1
            /\ p.pc = "done"
            /\ p.outcome = "returned"

====
